---- MODULE Spec2Model ----
(***************************************************************************)
(* The OAuth flow sequencer of client/src/lib/oauth-state-machine.ts:      *)
(* the transition table oauthTransitions (a guard canTransition and an     *)
(* action execute per step) and the driver OAuthStateMachine.executeStep.  *)
(*                                                                         *)
(* The Flow State (AuthDebuggerState) is owned by the caller, who merges   *)
(* every update the sequencer reports through updateState.  The Credential *)
(* Provider (DebugInspectorOAuthClientProvider) is a store keyed by server *)
(* URL.  The SDK functions are collaborators; their responses are drawn    *)
(* from small sets when the awaited call settles.  Every function of the   *)
(* table and the driver are async: inflight holds the invocations that are *)
(* suspended at an await, between which the caller and other invocations   *)
(* run.                                                                    *)
(***************************************************************************)
EXTENDS Integers, Sequences, FiniteSets, TLC

VARIABLES state, provider, last, inflight

vars == <<state, provider, last, inflight>>

----------------------------------------------------------------------------
(* Optional values: null / undefined is None, a value v is Some(v).        *)

None == [has |-> FALSE]

Some(v) == [has |-> TRUE, val |-> v]

(* Bounds *)
MaxCodeLen == 2

MaxServers == 2

MaxPrmAnswers == 2

(* Characters an authorization code is made of: a blank and a non-blank.   *)
Chars == {" ", "x"}

RECURSIVE StringsUpTo(_)
StringsUpTo(n) ==
    IF n = 0 THEN {<<>>}
    ELSE LET shorter == StringsUpTo(n - 1)
         IN  shorter \cup {Append(s, c) : s \in {t \in shorter : Len(t) = n - 1}, c \in Chars}

(* String.prototype.trim: drop leading and trailing white space.           *)
RECURSIVE trimStart(_)
trimStart(s) ==
    IF s = <<>> THEN <<>>
    ELSE IF Head(s) = " " THEN trimStart(Tail(s)) ELSE s

RECURSIVE trimEnd(_)
trimEnd(s) ==
    IF s = <<>> THEN <<>>
    ELSE IF s[Len(s)] = " " THEN trimEnd(SubSeq(s, 1, Len(s) - 1)) ELSE s

trim(s) == trimEnd(trimStart(s))

(* JavaScript truthiness (the !!x and !x of the guards).                   *)
TruthyObject(o) == o.has

TruthyString(o) == o.has /\ o.val # <<>>

----------------------------------------------------------------------------
(* Thrown values and the two ways an awaited call or a constructor ends.   *)
Error(m) == [isError |-> TRUE, message |-> m]

Returns(v) == [ok |-> TRUE, val |-> v]

Throws(e) == [ok |-> FALSE, err |-> e]

(* URLs.  new URL(s) throws a TypeError on an invalid string and otherwise *)
(* normalises the string (an origin without a path gets the path "/");     *)
(* new URL("/", base) throws on an invalid base and otherwise is the root  *)
(* of base's origin: scheme and host of base, with the path "/".           *)

serverUrl == "https://mcp.example/mcp"

IsValidUrl(s) == s # "not a url"

URL(s) ==
    IF s \in {"https://as.example", "https://as2.example", "https://mcp.example"}
    THEN s \o "/"
    ELSE s

(* The origin (scheme://host) of the URLs that occur.                      *)
Origin(u) ==
    CASE u \in {"https://mcp.example", "https://mcp.example/",
                "https://mcp.example/mcp"} ->
            "https://mcp.example"
      [] u \in {"https://as.example", "https://as.example/",
                "https://as.example/authorize",
                "https://as.example/authorize?challenge=1",
                "https://as.example/authorize?challenge=2"} ->
            "https://as.example"
      [] u \in {"https://as2.example", "https://as2.example/"} ->
            "https://as2.example"

RootURL(base) ==
    IF IsValidUrl(base)
    THEN Returns(Origin(base) \o "/")
    ELSE Throws(Error("Invalid URL"))

(* What the Flow State's resource can hold: a URL object, as               *)
(* selectResourceURL gives it, or a string, as it is after the Flow State  *)
(* has been stored and read back over the redirect.                        *)
UrlObject(href) == [isURL |-> TRUE, text |-> href]

StringValue(t) == [isURL |-> FALSE, text |-> t]

(* context.state.resource ? ... : the truthiness of an object or a string. *)
TruthyResource(o) == o.has /\ (o.val.isURL \/ o.val.text # "")

(* The resource handed to exchangeAuthorization: undefined for a falsy     *)
(* one, a URL object as it is, and new URL(string) for a string, which     *)
(* throws a TypeError on an invalid one.                                   *)
ExchangeResource(o) ==
    IF ~TruthyResource(o) THEN Returns(None)
    ELSE IF o.val.isURL THEN Returns(o)
    ELSE IF IsValidUrl(o.val.text) THEN Returns(Some(UrlObject(URL(o.val.text))))
    ELSE Throws(Error("Invalid URL"))

----------------------------------------------------------------------------
(* The steps, in the order of the OAuthStep type.                          *)

Steps == <<"prm_discovery", "oauth_metadata_discovery", "client_registration",
           "authorization_redirect", "authorization_code", "token_request",
           "complete">>

StepSet == {Steps[i] : i \in 1..Len(Steps)}

StepIndex(s) == CHOOSE i \in 1..Len(Steps) : Steps[i] = s

(* Values of the collaborators' responses and of the Flow State fields.    *)

(* authorization_servers lists: a first entry, then MaxServers - 1 more.   *)
RECURSIVE MoreServers(_)
MoreServers(n) == IF n = 0 THEN <<>> ELSE <<"https://as2.example/">> \o MoreServers(n - 1)

ServerLists ==
    {<<>>, <<"https://as.example">>, <<"not a url">>,
     <<"https://as.example">> \o MoreServers(MaxServers - 1),
     <<"not a url">> \o MoreServers(MaxServers - 1)}

ResourceMetadatas ==
    {m \in [resource : {"https://mcp.example/mcp"},
            authorization_servers : {None} \cup {Some(l) : l \in ServerLists},
            scopes_supported : {None, Some(<<>>), Some(<<"read", "write">>)}] :
        /\ m.scopes_supported.has =>
              m.authorization_servers \in {None, Some(<<"https://as.example">>)}
        /\ m.scopes_supported = Some(<<>>) => ~m.authorization_servers.has}

(* What discoverAuthorizationServerMetadata can return: a document with or *)
(* without the authorization_endpoint the schema requires.                 *)
RawMetadatas ==
    {[issuer |-> "https://as.example/", authorization_endpoint |-> ep, scopes_supported |-> sc] :
        ep \in {None, Some("https://as.example/authorize")}, sc \in {None, Some(<<"read">>)}}

(* OAuthMetadataSchema.parseAsync: accepts a document that has the         *)
(* required fields and returns it.                                         *)
SchemaAccepts(m) == m.authorization_endpoint.has

OAuthMetadatas == {m \in RawMetadatas : SchemaAccepts(m)}

ClientInfos == {[client_id |-> "static"], [client_id |-> "abc"]}

RegisteredClients == {[client_id |-> "abc"]}

AuthorizationStarts ==
    {[authorizationUrl |-> "https://as.example/authorize?challenge=1", codeVerifier |-> "verifier1"],
     [authorizationUrl |-> "https://as.example/authorize?challenge=2", codeVerifier |-> "verifier2"]}

TokenSets == {[access_token |-> "token1"]}

OAuthStates == {"state1", "state2"}

AuthorizationCodes == {None} \cup {Some(s) : s \in StringsUpTo(MaxCodeLen)}

(* Thrown values: an Error, or something that is not an Error.             *)
ThrownValues == {Error("fetch failed"), [isError |-> FALSE, message |-> "boom"]}

----------------------------------------------------------------------------
(* The Credential Provider: what is persisted for serverUrl.               *)

EmptyProvider ==
    [serverMetadata |-> None, clientInformation |-> None,
     codeVerifier |-> None, tokens |-> None]

saveServerMetadata(p, m) == [p EXCEPT !.serverMetadata = Some(m)]

getServerMetadata(p) == p.serverMetadata

clientInformation(p) == p.clientInformation

saveClientInformation(p, c) == [p EXCEPT !.clientInformation = Some(c)]

saveCodeVerifier(p, v) == [p EXCEPT !.codeVerifier = Some(v)]

codeVerifier(p) == p.codeVerifier

saveTokens(p, t) == [p EXCEPT !.tokens = Some(t)]

(* One save, as recorded in the outcome of an invocation.                  *)
ApplySave(p, s) ==
    CASE s.op = "saveServerMetadata"    -> saveServerMetadata(p, s.val)
      [] s.op = "saveClientInformation" -> saveClientInformation(p, s.val)
      [] s.op = "saveCodeVerifier"      -> saveCodeVerifier(p, s.val)
      [] s.op = "saveTokens"            -> saveTokens(p, s.val)

RECURSIVE ApplySaves(_, _)
ApplySaves(p, ss) ==
    IF ss = <<>> THEN p ELSE ApplySaves(ApplySave(p, Head(ss)), Tail(ss))

----------------------------------------------------------------------------
(* The Flow State and the caller's updateState, which merges a partial     *)
(* update into the state it holds.                                         *)

EmptyState ==
    [oauthStep |-> "prm_discovery", resourceMetadata |-> None,
     resourceMetadataError |-> None, resource |-> None, authServerUrl |-> None,
     oauthMetadata |-> None, oauthClientInfo |-> None, authorizationUrl |-> None,
     authorizationCode |-> Some(<<>>), validationError |-> None,
     oauthTokens |-> None]

updateState(s, u) == [f \in DOMAIN s |-> IF f \in DOMAIN u THEN u[f] ELSE s[f]]

RECURSIVE ApplyUpdates(_, _)
ApplyUpdates(s, us) ==
    IF us = <<>> THEN s ELSE ApplyUpdates(updateState(s, Head(us)), Tail(us))

(* The outcome of one invocation: whether it raised and with what message, *)
(* the updates it reported, the provider saves it made and the             *)
(* collaborators it called, each in order.                                 *)
Outcome(raised, error, updates, saves, calls) ==
    [raised |-> raised, error |-> error, updates |-> updates,
     saves |-> saves, calls |-> calls]

Call(fn, args) == [fn |-> fn, args |-> args]

Save(op, val) == [op |-> op, val |-> val]

----------------------------------------------------------------------------
(* The transition table: the guards.                                       *)

(* canTransition with a guard of complete that passes.                     *)
canTransition_completePasses(step, s, p) ==
    CASE step = "prm_discovery"            -> TRUE
      [] step = "oauth_metadata_discovery" -> TruthyObject(s.authServerUrl)
      [] step = "client_registration"      -> TruthyObject(s.oauthMetadata)
      [] step = "authorization_redirect"   ->
            TruthyObject(s.oauthMetadata) /\ TruthyObject(s.oauthClientInfo)
      [] step = "authorization_code"       -> TRUE
      [] step = "token_request"            ->
            /\ TruthyString(s.authorizationCode)
            /\ TruthyObject(p.serverMetadata)
            /\ TruthyObject(p.clientInformation)
      [] step = "complete"                 -> TRUE

(* canTransition whose token_request guard does not ask the provider for   *)
(* client information.                                                     *)
canTransition_noClientCheck(step, s, p) ==
    CASE step = "prm_discovery"            -> TRUE
      [] step = "oauth_metadata_discovery" -> TruthyObject(s.authServerUrl)
      [] step = "client_registration"      -> TruthyObject(s.oauthMetadata)
      [] step = "authorization_redirect"   ->
            TruthyObject(s.oauthMetadata) /\ TruthyObject(s.oauthClientInfo)
      [] step = "authorization_code"       -> TRUE
      [] step = "token_request"            ->
            /\ TruthyString(s.authorizationCode)
            /\ TruthyObject(p.serverMetadata)
      [] step = "complete"                 -> FALSE

(* canTransition whose token_request guard reads the metadata and the     *)
(* client information of the Flow State instead of the provider's.         *)
canTransition_usesState(step, s, p) ==
    CASE step = "prm_discovery"            -> TRUE
      [] step = "oauth_metadata_discovery" -> TruthyObject(s.authServerUrl)
      [] step = "client_registration"      -> TruthyObject(s.oauthMetadata)
      [] step = "authorization_redirect"   ->
            TruthyObject(s.oauthMetadata) /\ TruthyObject(s.oauthClientInfo)
      [] step = "authorization_code"       -> TRUE
      [] step = "token_request"            ->
            /\ TruthyString(s.authorizationCode)
            /\ TruthyObject(s.oauthMetadata)
            /\ TruthyObject(s.oauthClientInfo)
      [] step = "complete"                 -> FALSE

canTransition(step, s, p) ==
    CASE step = "prm_discovery"            -> TRUE
      [] step = "oauth_metadata_discovery" -> TruthyObject(s.authServerUrl)
      [] step = "client_registration"      -> TruthyObject(s.oauthMetadata)
      [] step = "authorization_redirect"   ->
            TruthyObject(s.oauthMetadata) /\ TruthyObject(s.oauthClientInfo)
      [] step = "authorization_code"       -> TRUE
      [] step = "token_request"            ->
            /\ TruthyString(s.authorizationCode)
            /\ TruthyObject(getServerMetadata(p))
            /\ TruthyObject(clientInformation(p))
      [] step = "complete"                 -> FALSE

(* The transition table: the actions.  Each takes the Flow State and the   *)
(* provider of the context and the responses of the collaborators it      *)
(* calls, and gives the outcome of the invocation.                         *)

(* catch (e): an Error is kept, anything else becomes new Error(String(e)) *)
CaughtError(e) == IF e.isError THEN e ELSE Error(e.message)

(* prm_discovery without the try/catch around the PRM fetch.                *)
prm_discovery_rethrows(s, p, prm, sel) ==
    LET calls1 == <<Call("discoverOAuthProtectedResourceMetadata", <<serverUrl>>)>>
        calls2 == Append(calls1, Call("selectResourceURL", <<serverUrl, Some(prm.val)>>))
        servers == prm.val.authorization_servers
        useFirst == servers.has /\ Len(servers.val) # 0
    IN  IF ~prm.ok
        THEN Outcome(TRUE, prm.err, <<>>, <<>>, calls1)
        ELSE IF ~sel.ok
        THEN Outcome(TRUE, sel.err, <<>>, <<>>, calls2)
        ELSE IF ~RootURL(serverUrl).ok
        THEN Outcome(TRUE, RootURL(serverUrl).err, <<>>, <<>>, calls2)
        ELSE IF useFirst /\ ~IsValidUrl(servers.val[1])
        THEN Outcome(TRUE, Error("Invalid URL"), <<>>, <<>>, calls2)
        ELSE Outcome(FALSE, None,
                     <<[resourceMetadata      |-> Some(prm.val),
                        resource              |-> sel.val,
                        resourceMetadataError |-> None,
                        authServerUrl         |-> Some(IF useFirst
                                                       THEN URL(servers.val[1])
                                                       ELSE RootURL(serverUrl).val),
                        oauthStep             |-> "oauth_metadata_discovery"]>>,
                     <<>>, calls2)

(* prm_discovery that keeps the metadata of an earlier attempt when the    *)
(* fetch fails.                                                            *)
prm_discovery_keepsMetadata(s, p, prm, sel) ==
    LET resourceMetadata      == IF prm.ok THEN Some(prm.val)
                                 ELSE Some([resource |-> serverUrl,
                                            authorization_servers |-> None,
                                            scopes_supported |-> None])
        resourceMetadataError == IF prm.ok THEN None ELSE Some(CaughtError(prm.err))
        calls1 == <<Call("discoverOAuthProtectedResourceMetadata", <<serverUrl>>)>>
        calls2 == Append(calls1, Call("selectResourceURL", <<serverUrl, resourceMetadata>>))
        servers == resourceMetadata.val.authorization_servers
        useFirst == servers.has /\ Len(servers.val) # 0
    IN  IF ~sel.ok
        THEN Outcome(TRUE, sel.err, <<>>, <<>>, calls2)
        ELSE IF ~RootURL(serverUrl).ok
        THEN Outcome(TRUE, RootURL(serverUrl).err, <<>>, <<>>, calls2)
        ELSE IF useFirst /\ ~IsValidUrl(servers.val[1])
        THEN Outcome(TRUE, Error("Invalid URL"), <<>>, <<>>, calls2)
        ELSE Outcome(FALSE, None,
                     <<[resourceMetadata      |-> resourceMetadata,
                        resource              |-> sel.val,
                        resourceMetadataError |-> resourceMetadataError,
                        authServerUrl         |-> Some(IF useFirst
                                                       THEN URL(servers.val[1])
                                                       ELSE RootURL(serverUrl).val),
                        oauthStep             |-> "oauth_metadata_discovery"]>>,
                     <<>>, calls2)

(* prm_discovery that takes the last declared authorization server.       *)
prm_discovery_lastServer(s, p, prm, sel) ==
    LET resourceMetadata      == IF prm.ok THEN Some(prm.val) ELSE None
        resourceMetadataError == IF prm.ok THEN None ELSE Some(CaughtError(prm.err))
        calls1 == <<Call("discoverOAuthProtectedResourceMetadata", <<serverUrl>>)>>
        calls2 == Append(calls1, Call("selectResourceURL", <<serverUrl, resourceMetadata>>))
        servers == IF resourceMetadata.has
                   THEN resourceMetadata.val.authorization_servers
                   ELSE None
        useLast == servers.has /\ Len(servers.val) # 0
    IN  IF ~sel.ok
        THEN Outcome(TRUE, sel.err, <<>>, <<>>, calls2)
        ELSE IF useLast /\ ~IsValidUrl(servers.val[Len(servers.val)])
        THEN Outcome(TRUE, Error("Invalid URL"), <<>>, <<>>, calls2)
        ELSE Outcome(FALSE, None,
                     <<[resourceMetadata      |-> resourceMetadata,
                        resource              |-> sel.val,
                        resourceMetadataError |-> resourceMetadataError,
                        authServerUrl         |-> Some(IF useLast
                                                       THEN URL(servers.val[Len(servers.val)])
                                                       ELSE RootURL(serverUrl).val),
                        oauthStep             |-> "oauth_metadata_discovery"]>>,
                     <<>>, calls2)

(* prm_discovery that clears validationError as it starts the flow.       *)
prm_discovery_clearsError(s, p, prm, sel) ==
    LET resourceMetadata      == IF prm.ok THEN Some(prm.val) ELSE None
        resourceMetadataError == IF prm.ok THEN None ELSE Some(CaughtError(prm.err))
        calls2 == <<Call("discoverOAuthProtectedResourceMetadata", <<serverUrl>>),
                    Call("selectResourceURL", <<serverUrl, resourceMetadata>>)>>
        servers == IF resourceMetadata.has
                   THEN resourceMetadata.val.authorization_servers
                   ELSE None
        useFirst == servers.has /\ Len(servers.val) # 0
    IN  IF ~sel.ok
        THEN Outcome(TRUE, sel.err, <<>>, <<>>, calls2)
        ELSE IF ~RootURL(serverUrl).ok
        THEN Outcome(TRUE, RootURL(serverUrl).err, <<>>, <<>>, calls2)
        ELSE IF useFirst /\ ~IsValidUrl(servers.val[1])
        THEN Outcome(TRUE, Error("Invalid URL"), <<>>, <<>>, calls2)
        ELSE Outcome(FALSE, None,
                     <<[resourceMetadata      |-> resourceMetadata,
                        resource              |-> sel.val,
                        resourceMetadataError |-> resourceMetadataError,
                        authServerUrl         |-> Some(IF useFirst
                                                       THEN URL(servers.val[1])
                                                       ELSE RootURL(serverUrl).val),
                        validationError       |-> None,
                        oauthStep             |-> "oauth_metadata_discovery"]>>,
                     <<>>, calls2)

prm_discovery(s, p, prm, sel) ==
    LET resourceMetadata      == IF prm.ok THEN Some(prm.val) ELSE None
        resourceMetadataError == IF prm.ok THEN None ELSE Some(CaughtError(prm.err))
        calls1 == <<Call("discoverOAuthProtectedResourceMetadata", <<serverUrl>>)>>
        calls2 == Append(calls1, Call("selectResourceURL", <<serverUrl, resourceMetadata>>))
        servers == IF resourceMetadata.has
                   THEN resourceMetadata.val.authorization_servers
                   ELSE None
        useFirst == servers.has /\ Len(servers.val) # 0
    IN  IF ~sel.ok
        THEN Outcome(TRUE, sel.err, <<>>, <<>>, calls2)
        ELSE IF ~RootURL(serverUrl).ok
        THEN Outcome(TRUE, RootURL(serverUrl).err, <<>>, <<>>, calls2)
        ELSE IF useFirst /\ ~IsValidUrl(servers.val[1])
        THEN Outcome(TRUE, Error("Invalid URL"), <<>>, <<>>, calls2)
        ELSE Outcome(FALSE, None,
                     <<[resourceMetadata      |-> resourceMetadata,
                        resource              |-> sel.val,
                        resourceMetadataError |-> resourceMetadataError,
                        authServerUrl         |-> Some(IF useFirst
                                                       THEN URL(servers.val[1])
                                                       ELSE RootURL(serverUrl).val),
                        oauthStep             |-> "oauth_metadata_discovery"]>>,
                     <<>>, calls2)

(* oauth_metadata_discovery without the schema validation.                 *)
oauth_metadata_discovery_noParse(s, p, md) ==
    LET calls1 == <<Call("discoverAuthorizationServerMetadata", <<s.authServerUrl>>)>>
    IN  IF ~md.ok
        THEN Outcome(TRUE, md.err, <<>>, <<>>, calls1)
        ELSE IF ~md.val.has
        THEN Outcome(TRUE, Error("Failed to discover OAuth metadata"), <<>>, <<>>, calls1)
        ELSE Outcome(FALSE, None,
                     <<[oauthMetadata |-> Some(md.val.val),
                        oauthStep     |-> "client_registration"]>>,
                     <<Save("saveServerMetadata", md.val.val)>>, calls1)

(* oauth_metadata_discovery that reports the metadata without saving it.  *)
oauth_metadata_discovery_noSave(s, p, md) ==
    LET calls1 == <<Call("discoverAuthorizationServerMetadata", <<s.authServerUrl>>)>>
        calls2 == Append(calls1, Call("OAuthMetadataSchema.parseAsync", <<md.val>>))
    IN  IF ~md.ok
        THEN Outcome(TRUE, md.err, <<>>, <<>>, calls1)
        ELSE IF ~md.val.has
        THEN Outcome(TRUE, Error("Failed to discover OAuth metadata"), <<>>, <<>>, calls1)
        ELSE IF ~SchemaAccepts(md.val.val)
        THEN Outcome(TRUE, Error("ZodError"), <<>>, <<>>, calls2)
        ELSE Outcome(FALSE, None,
                     <<[oauthMetadata |-> Some(md.val.val),
                        oauthStep     |-> "client_registration"]>>,
                     <<>>, calls2)

(* md: the response of discoverAuthorizationServerMetadata.                *)
oauth_metadata_discovery(s, p, md) ==
    LET calls1 == <<Call("discoverAuthorizationServerMetadata", <<s.authServerUrl>>)>>
        calls2 == Append(calls1, Call("OAuthMetadataSchema.parseAsync", <<md.val>>))
    IN  IF ~md.ok
        THEN Outcome(TRUE, md.err, <<>>, <<>>, calls1)
        ELSE IF ~md.val.has
        THEN Outcome(TRUE, Error("Failed to discover OAuth metadata"), <<>>, <<>>, calls1)
        ELSE IF ~SchemaAccepts(md.val.val)
        THEN Outcome(TRUE, Error("ZodError"), <<>>, <<>>, calls2)
        ELSE Outcome(FALSE, None,
                     <<[oauthMetadata |-> Some(md.val.val),
                        oauthStep     |-> "client_registration"]>>,
                     <<Save("saveServerMetadata", md.val.val)>>, calls2)

(* Array.prototype.join(" ") *)
RECURSIVE join(_)
join(l) ==
    IF Len(l) = 0 THEN ""
    ELSE IF Len(l) = 1 THEN l[1]
    ELSE l[1] \o " " \o join(Tail(l))

(* scopesSupported (lines 93-95): a || b gives a when a is truthy, which an *)
(* empty list is, and evaluates b otherwise; metadata.scopes_supported     *)
(* throws a TypeError when the Flow State holds no oauthMetadata.           *)
ScopesSupported(s) ==
    IF s.resourceMetadata.has /\ s.resourceMetadata.val.scopes_supported.has
    THEN Returns(s.resourceMetadata.val.scopes_supported)
    ELSE IF s.oauthMetadata.has
    THEN Returns(s.oauthMetadata.val.scopes_supported)
    ELSE Throws(Error("Cannot read properties of undefined"))

(* provider.clientMetadata after the scope assignment of the step.         *)
ClientMetadata(s) ==
    [scope |-> IF ScopesSupported(s).ok /\ ScopesSupported(s).val.has
               THEN Some(join(ScopesSupported(s).val.val))
               ELSE None]

(* The assignment clientMetadata.scope = ... of the step, made before the  *)
(* lookup when there are scopes to assign.                                 *)
ScopeAssignment(s) ==
    IF ClientMetadata(s).scope.has
    THEN <<Call("clientMetadata.scope", <<ClientMetadata(s).scope.val>>)>>
    ELSE <<>>

(* client_registration that catches a registration failure and advances.  *)
client_registration_swallows(s, p, ci, reg) ==
    LET existing == p.clientInformation
        calls1 == ScopeAssignment(s) \o <<Call("provider.clientInformation", <<>>)>>
        calls2 == Append(calls1, Call("registerClient",
                                      <<serverUrl, s.oauthMetadata, ClientMetadata(s)>>))
    IN  IF ~ci.ok
        THEN Outcome(TRUE, ci.err, <<>>, <<>>, calls1)
        ELSE IF TruthyObject(existing)
        THEN Outcome(FALSE, None,
                     <<[oauthClientInfo |-> existing,
                        oauthStep       |-> "authorization_redirect"]>>,
                     <<>>, calls1)
        ELSE IF ~reg.ok
        THEN Outcome(FALSE, None,
                     <<[oauthClientInfo |-> None,
                        oauthStep       |-> "authorization_redirect"]>>,
                     <<>>, calls2)
        ELSE Outcome(FALSE, None,
                     <<[oauthClientInfo |-> Some(reg.val),
                        oauthStep       |-> "authorization_redirect"]>>,
                     <<Save("saveClientInformation", reg.val)>>, calls2)

(* client_registration that advances past authorization_redirect.         *)
client_registration_skips(s, p, ci, reg) ==
    LET existing == p.clientInformation
    IN  IF ~ci.ok
        THEN Outcome(TRUE, ci.err, <<>>, <<>>, <<Call("provider.clientInformation", <<>>)>>)
        ELSE IF TruthyObject(existing)
        THEN Outcome(FALSE, None,
                     <<[oauthClientInfo |-> existing,
                        oauthStep       |-> "authorization_code"]>>,
                     <<>>, <<Call("provider.clientInformation", <<>>)>>)
        ELSE IF ~reg.ok
        THEN Outcome(TRUE, reg.err, <<>>, <<>>, <<Call("provider.clientInformation", <<>>)>>)
        ELSE Outcome(FALSE, None,
                     <<[oauthClientInfo |-> Some(reg.val),
                        oauthStep       |-> "authorization_code"]>>,
                     <<Save("saveClientInformation", reg.val)>>,
                     <<Call("provider.clientInformation", <<>>)>>)

(* client_registration that decides by the Flow State's oauthClientInfo    *)
(* instead of asking the provider.                                         *)
client_registration_asksState(s, p, ci, reg) ==
    LET calls1 == ScopeAssignment(s) \o <<Call("provider.clientInformation", <<>>)>>
        calls2 == Append(calls1, Call("registerClient",
                                      <<serverUrl, s.oauthMetadata, ClientMetadata(s)>>))
    IN  IF ~ci.ok
        THEN Outcome(TRUE, ci.err, <<>>, <<>>, calls1)
        ELSE IF TruthyObject(s.oauthClientInfo)
        THEN Outcome(FALSE, None,
                     <<[oauthClientInfo |-> s.oauthClientInfo,
                        oauthStep       |-> "authorization_redirect"]>>,
                     <<>>, calls1)
        ELSE IF ~reg.ok
        THEN Outcome(TRUE, reg.err, <<>>, <<>>, calls2)
        ELSE Outcome(FALSE, None,
                     <<[oauthClientInfo |-> Some(reg.val),
                        oauthStep       |-> "authorization_redirect"]>>,
                     <<Save("saveClientInformation", reg.val)>>, calls2)

(* client_registration that registers whatever the provider holds.        *)
client_registration_alwaysRegisters(s, p, ci, reg) ==
    LET calls1 == ScopeAssignment(s) \o <<Call("provider.clientInformation", <<>>)>>
        calls2 == Append(calls1, Call("registerClient",
                                      <<serverUrl, s.oauthMetadata, ClientMetadata(s)>>))
    IN  IF ~ci.ok
        THEN Outcome(TRUE, ci.err, <<>>, <<>>, calls1)
        ELSE IF ~reg.ok
        THEN Outcome(TRUE, reg.err, <<>>, <<>>, calls2)
        ELSE Outcome(FALSE, None,
                     <<[oauthClientInfo |-> Some(reg.val),
                        oauthStep       |-> "authorization_redirect"]>>,
                     <<Save("saveClientInformation", reg.val)>>, calls2)

(* client_registration that prefers the scopes of the AS metadata to those *)
(* of the PRM.                                                             *)
client_registration_asScopesFirst(s, p, ci, reg) ==
    LET metadata == s.oauthMetadata.val
        scopesSupported ==
            IF metadata.scopes_supported.has THEN metadata.scopes_supported
            ELSE IF s.resourceMetadata.has THEN s.resourceMetadata.val.scopes_supported
            ELSE None
        clientMetadata ==
            [scope |-> IF scopesSupported.has THEN Some(join(scopesSupported.val)) ELSE None]
        existing == clientInformation(p)
        calls1 == (IF scopesSupported.has
                   THEN <<Call("clientMetadata.scope", <<clientMetadata.scope.val>>)>>
                   ELSE <<>>) \o <<Call("provider.clientInformation", <<>>)>>
        calls2 == Append(calls1, Call("registerClient",
                                      <<serverUrl, s.oauthMetadata, clientMetadata>>))
    IN  IF ~ci.ok
        THEN Outcome(TRUE, ci.err, <<>>, <<>>, calls1)
        ELSE IF TruthyObject(existing)
        THEN Outcome(FALSE, None,
                     <<[oauthClientInfo |-> existing,
                        oauthStep       |-> "authorization_redirect"]>>,
                     <<>>, calls1)
        ELSE IF ~reg.ok
        THEN Outcome(TRUE, reg.err, <<>>, <<>>, calls2)
        ELSE Outcome(FALSE, None,
                     <<[oauthClientInfo |-> Some(reg.val),
                        oauthStep       |-> "authorization_redirect"]>>,
                     <<Save("saveClientInformation", reg.val)>>, calls2)

(* client_registration that reports the registered client without saving  *)
(* it.                                                                     *)
client_registration_noSave(s, p, ci, reg) ==
    LET existing == clientInformation(p)
        calls1 == ScopeAssignment(s) \o <<Call("provider.clientInformation", <<>>)>>
        calls2 == Append(calls1, Call("registerClient",
                                      <<serverUrl, s.oauthMetadata, ClientMetadata(s)>>))
    IN  IF ~ci.ok
        THEN Outcome(TRUE, ci.err, <<>>, <<>>, calls1)
        ELSE IF TruthyObject(existing)
        THEN Outcome(FALSE, None,
                     <<[oauthClientInfo |-> existing,
                        oauthStep       |-> "authorization_redirect"]>>,
                     <<>>, calls1)
        ELSE IF ~reg.ok
        THEN Outcome(TRUE, reg.err, <<>>, <<>>, calls2)
        ELSE Outcome(FALSE, None,
                     <<[oauthClientInfo |-> Some(reg.val),
                        oauthStep       |-> "authorization_redirect"]>>,
                     <<>>, calls2)

(* ci: the response of the provider's clientInformation() lookup, which    *)
(* gives what is stored or raises; reg: the response of registerClient.   *)
client_registration(s, p, ci, reg) ==
    LET metadata       == s.oauthMetadata
        clientMetadata == ClientMetadata(s)
        existing       == clientInformation(p)
        calls1 == ScopeAssignment(s) \o <<Call("provider.clientInformation", <<>>)>>
        calls2 == Append(calls1, Call("registerClient",
                                      <<serverUrl, metadata, clientMetadata>>))
    IN  IF ~ScopesSupported(s).ok
        THEN Outcome(TRUE, ScopesSupported(s).err, <<>>, <<>>, <<>>)
        ELSE IF ~ci.ok
        THEN Outcome(TRUE, ci.err, <<>>, <<>>, calls1)
        ELSE IF TruthyObject(existing)
        THEN Outcome(FALSE, None,
                     <<[oauthClientInfo |-> existing,
                        oauthStep       |-> "authorization_redirect"]>>,
                     <<>>, calls1)
        ELSE IF ~reg.ok
        THEN Outcome(TRUE, reg.err, <<>>, <<>>, calls2)
        ELSE Outcome(FALSE, None,
                     <<[oauthClientInfo |-> Some(reg.val),
                        oauthStep       |-> "authorization_redirect"]>>,
                     <<Save("saveClientInformation", reg.val)>>, calls2)

(* authorization_redirect that returns normally when the authorization     *)
(* start fails.                                                            *)
authorization_redirect_swallows(s, p, sc, nonce, start) ==
    LET calls1 == <<Call("discoverScopes", <<serverUrl, s.resourceMetadata>>)>>
        calls3 == calls1 \o <<Call("generateOAuthState", <<>>),
                               Call("startAuthorization",
                                    <<serverUrl, s.oauthMetadata, s.oauthClientInfo,
                                      sc.val, nonce, s.resource>>)>>
    IN  IF ~sc.ok
        THEN Outcome(TRUE, sc.err, <<>>, <<>>, calls1)
        ELSE IF ~start.ok
        THEN Outcome(FALSE, None, <<>>, <<>>, calls3)
        ELSE Outcome(FALSE, None,
                     <<[authorizationUrl |-> Some(start.val.authorizationUrl),
                        oauthStep        |-> "authorization_code"]>>,
                     <<Save("saveCodeVerifier", start.val.codeVerifier)>>, calls3)

(* authorization_redirect that refuses to start an authorization when the *)
(* provider already holds a code verifier.                                 *)
authorization_redirect_once(s, p, sc, nonce, start) ==
    LET calls1 == <<Call("discoverScopes", <<serverUrl, s.resourceMetadata>>)>>
        calls3 == calls1 \o <<Call("generateOAuthState", <<>>),
                               Call("startAuthorization",
                                    <<serverUrl, s.oauthMetadata, s.oauthClientInfo,
                                      sc.val, nonce, s.resource>>)>>
    IN  IF codeVerifier(p).has
        THEN Outcome(TRUE, Error("Authorization already started"), <<>>, <<>>, <<>>)
        ELSE IF ~sc.ok
        THEN Outcome(TRUE, sc.err, <<>>, <<>>, calls1)
        ELSE IF ~start.ok
        THEN Outcome(TRUE, start.err, <<>>, <<>>, calls3)
        ELSE Outcome(FALSE, None,
                     <<[authorizationUrl |-> Some(start.val.authorizationUrl),
                        oauthStep        |-> "authorization_code"]>>,
                     <<Save("saveCodeVerifier", start.val.codeVerifier)>>, calls3)

(* authorization_redirect that reports the URL without saving the verifier *)
(* that goes with it.                                                      *)
authorization_redirect_noVerifier(s, p, sc, nonce, start) ==
    LET calls1 == <<Call("discoverScopes", <<serverUrl, s.resourceMetadata>>)>>
        calls3 == calls1 \o <<Call("generateOAuthState", <<>>),
                               Call("startAuthorization",
                                    <<serverUrl, s.oauthMetadata, s.oauthClientInfo,
                                      sc.val, nonce, s.resource>>)>>
    IN  IF ~sc.ok
        THEN Outcome(TRUE, sc.err, <<>>, <<>>, calls1)
        ELSE IF ~start.ok
        THEN Outcome(TRUE, start.err, <<>>, <<>>, calls3)
        ELSE Outcome(FALSE, None,
                     <<[authorizationUrl |-> Some(start.val.authorizationUrl),
                        oauthStep        |-> "authorization_code"]>>,
                     <<>>, calls3)

(* sc: the response of discoverScopes; nonce: the value generateOAuthState *)
(* gives; start: the response of startAuthorization.                       *)
authorization_redirect(s, p, sc, nonce, start) ==
    LET calls1 == <<Call("discoverScopes", <<serverUrl, s.resourceMetadata>>)>>
        calls2 == Append(calls1, Call("generateOAuthState", <<>>))
        calls3 == Append(calls2,
                         Call("startAuthorization",
                              <<serverUrl, s.oauthMetadata, s.oauthClientInfo,
                                sc.val, nonce, s.resource>>))
    IN  IF ~sc.ok
        THEN Outcome(TRUE, sc.err, <<>>, <<>>, calls1)
        ELSE IF ~start.ok
        THEN Outcome(TRUE, start.err, <<>>, <<>>, calls3)
        ELSE Outcome(FALSE, None,
                     <<[authorizationUrl |-> Some(start.val.authorizationUrl),
                        oauthStep        |-> "authorization_code"]>>,
                     <<Save("saveCodeVerifier", start.val.codeVerifier)>>, calls3)

(* authorization_code that tests the code without trimming it.             *)
authorization_code_noTrim(s, p) ==
    IF ~TruthyString(s.authorizationCode)
    THEN Outcome(TRUE, Error("Authorization code required"),
                 <<[validationError |-> Some("You need to provide an authorization code")]>>,
                 <<>>, <<>>)
    ELSE Outcome(FALSE, None,
                 <<[validationError |-> None, oauthStep |-> "token_request"]>>,
                 <<>>, <<>>)

(* authorization_code that advances without clearing validationError.      *)
authorization_code_keepsError(s, p) ==
    IF ~TruthyString(s.authorizationCode) \/ trim(s.authorizationCode.val) = <<>>
    THEN Outcome(TRUE, Error("Authorization code required"),
                 <<[validationError |-> Some("You need to provide an authorization code")]>>,
                 <<>>, <<>>)
    ELSE Outcome(FALSE, None, <<[oauthStep |-> "token_request"]>>, <<>>, <<>>)

(* authorization_code that reports validationError and the step in two     *)
(* updates.                                                                *)
authorization_code_twoUpdates(s, p) ==
    IF ~TruthyString(s.authorizationCode) \/ trim(s.authorizationCode.val) = <<>>
    THEN Outcome(TRUE, Error("Authorization code required"),
                 <<[validationError |-> Some("You need to provide an authorization code")]>>,
                 <<>>, <<>>)
    ELSE Outcome(FALSE, None,
                 <<[validationError |-> None], [oauthStep |-> "token_request"]>>,
                 <<>>, <<>>)

authorization_code(s, p) ==
    IF ~TruthyString(s.authorizationCode) \/ trim(s.authorizationCode.val) = <<>>
    THEN Outcome(TRUE, Error("Authorization code required"),
                 <<[validationError |-> Some("You need to provide an authorization code")]>>,
                 <<>>, <<>>)
    ELSE Outcome(FALSE, None,
                 <<[validationError |-> None, oauthStep |-> "token_request"]>>,
                 <<>>, <<>>)

(* token_request that catches an exchange failure and completes.          *)
token_request_swallows(s, p, ci, ex) ==
    LET resource == ExchangeResource(s.resource)
        calls1 == <<Call("provider.clientInformation", <<>>)>>
        calls2 == Append(calls1,
                         Call("exchangeAuthorization",
                              <<serverUrl, p.serverMetadata, p.clientInformation,
                                s.authorizationCode, p.codeVerifier, resource.val>>))
    IN  IF ~ci.ok
        THEN Outcome(TRUE, ci.err, <<>>, <<>>, calls1)
        ELSE IF ~resource.ok
        THEN Outcome(TRUE, resource.err, <<>>, <<>>, calls1)
        ELSE IF ~ex.ok
        THEN Outcome(FALSE, None, <<[oauthStep |-> "complete"]>>, <<>>, calls2)
        ELSE Outcome(FALSE, None,
                     <<[oauthTokens |-> Some(ex.val), oauthStep |-> "complete"]>>,
                     <<Save("saveTokens", ex.val)>>, calls2)

(* token_request that reports the tokens and leaves the step alone.        *)
token_request_staysPut(s, p, ci, ex) ==
    LET resource == ExchangeResource(s.resource)
        calls1 == <<Call("provider.clientInformation", <<>>)>>
        calls2 == Append(calls1,
                         Call("exchangeAuthorization",
                              <<serverUrl, p.serverMetadata, p.clientInformation,
                                s.authorizationCode, p.codeVerifier, resource.val>>))
    IN  IF ~ci.ok
        THEN Outcome(TRUE, ci.err, <<>>, <<>>, calls1)
        ELSE IF ~resource.ok
        THEN Outcome(TRUE, resource.err, <<>>, <<>>, calls1)
        ELSE IF ~ex.ok
        THEN Outcome(TRUE, ex.err, <<>>, <<>>, calls2)
        ELSE Outcome(FALSE, None, <<[oauthTokens |-> Some(ex.val)]>>,
                     <<Save("saveTokens", ex.val)>>, calls2)

(* token_request that takes the metadata and the client information from  *)
(* the Flow State instead of the provider.                                 *)
token_request_fromState(s, p, ci, ex) ==
    LET resource == ExchangeResource(s.resource)
        calls1 == <<Call("provider.clientInformation", <<>>)>>
        calls2 == Append(calls1,
                         Call("exchangeAuthorization",
                              <<serverUrl, s.oauthMetadata, s.oauthClientInfo,
                                s.authorizationCode, p.codeVerifier, resource.val>>))
    IN  IF ~ci.ok
        THEN Outcome(TRUE, ci.err, <<>>, <<>>, calls1)
        ELSE IF ~resource.ok
        THEN Outcome(TRUE, resource.err, <<>>, <<>>, calls1)
        ELSE IF ~ex.ok
        THEN Outcome(TRUE, ex.err, <<>>, <<>>, calls2)
        ELSE Outcome(FALSE, None,
                     <<[oauthTokens |-> Some(ex.val), oauthStep |-> "complete"]>>,
                     <<Save("saveTokens", ex.val)>>, calls2)

(* token_request that reports the tokens without saving them.              *)
token_request_noSave(s, p, ci, ex) ==
    LET resource == ExchangeResource(s.resource)
        calls1 == <<Call("provider.clientInformation", <<>>)>>
        calls2 == Append(calls1,
                         Call("exchangeAuthorization",
                              <<serverUrl, p.serverMetadata, p.clientInformation,
                                s.authorizationCode, p.codeVerifier, resource.val>>))
    IN  IF ~ci.ok
        THEN Outcome(TRUE, ci.err, <<>>, <<>>, calls1)
        ELSE IF ~resource.ok
        THEN Outcome(TRUE, resource.err, <<>>, <<>>, calls1)
        ELSE IF ~ex.ok
        THEN Outcome(TRUE, ex.err, <<>>, <<>>, calls2)
        ELSE Outcome(FALSE, None,
                     <<[oauthTokens |-> Some(ex.val), oauthStep |-> "complete"]>>,
                     <<>>, calls2)

(* token_request that clears the authorization code it has spent.         *)
token_request_clearsCode(s, p, ci, ex) ==
    LET resource == ExchangeResource(s.resource)
        calls1 == <<Call("provider.clientInformation", <<>>)>>
        calls2 == Append(calls1,
                         Call("exchangeAuthorization",
                              <<serverUrl, getServerMetadata(p), clientInformation(p),
                                s.authorizationCode, codeVerifier(p), resource.val>>))
    IN  IF ~ci.ok
        THEN Outcome(TRUE, ci.err, <<>>, <<>>, calls1)
        ELSE IF ~resource.ok
        THEN Outcome(TRUE, resource.err, <<>>, <<>>, calls1)
        ELSE IF ~ex.ok
        THEN Outcome(TRUE, ex.err, <<>>, <<>>, calls2)
        ELSE Outcome(FALSE, None,
                     <<[oauthTokens |-> Some(ex.val), authorizationCode |-> None,
                        oauthStep |-> "complete"]>>,
                     <<Save("saveTokens", ex.val)>>, calls2)

(* ci: the response of the action's own clientInformation() lookup; ex:    *)
(* the response of exchangeAuthorization.  The verifier, the metadata and  *)
(* the client information are what the provider holds, present or not (the *)
(* non-null assertions do nothing at run time); the resource is rebuilt    *)
(* from the Flow State's when the arguments are put together, after the    *)
(* lookup, and a string that is no URL raises a TypeError there, before    *)
(* the exchange is called.                                                 *)
token_request(s, p, ci, ex) ==
    LET verifier == codeVerifier(p)
        metadata == getServerMetadata(p)
        client   == clientInformation(p)
        resource == ExchangeResource(s.resource)
        calls1 == <<Call("provider.clientInformation", <<>>)>>
        calls2 == Append(calls1,
                         Call("exchangeAuthorization",
                              <<serverUrl, metadata, client, s.authorizationCode,
                                verifier, resource.val>>))
    IN  IF ~ci.ok
        THEN Outcome(TRUE, ci.err, <<>>, <<>>, calls1)
        ELSE IF ~resource.ok
        THEN Outcome(TRUE, resource.err, <<>>, <<>>, calls1)
        ELSE IF ~ex.ok
        THEN Outcome(TRUE, ex.err, <<>>, <<>>, calls2)
        ELSE Outcome(FALSE, None,
                     <<[oauthTokens |-> Some(ex.val), oauthStep |-> "complete"]>>,
                     <<Save("saveTokens", ex.val)>>, calls2)

complete(s, p) == Outcome(FALSE, None, <<>>, <<>>, <<>>)

----------------------------------------------------------------------------
(* The driver.  r holds the responses of the collaborators, of which the   *)
(* step's action uses its own; ci is the response of the first            *)
(* clientInformation() lookup of the invocation and ci2 of the second,     *)
(* which only token_request makes.                                         *)

execute(step, s, p, r) ==
    CASE step = "prm_discovery"            -> prm_discovery(s, p, r.prm, r.sel)
      [] step = "oauth_metadata_discovery" -> oauth_metadata_discovery(s, p, r.md)
      [] step = "client_registration"      -> client_registration(s, p, r.ci, r.reg)
      [] step = "authorization_redirect"   ->
            authorization_redirect(s, p, r.sc, r.nonce, r.start)
      [] step = "authorization_code"       -> authorization_code(s, p)
      [] step = "token_request"            -> token_request(s, p, r.ci2, r.ex)
      [] step = "complete"                 -> complete(s, p)

(* The guard of token_request awaits the provider's clientInformation()   *)
(* once the first two conjuncts hold (&& evaluates no further after a      *)
(* falsy operand); a lookup that raises makes the guard raise instead of   *)
(* giving a result.                                                        *)
GuardLooksUp(step, s, p) ==
    /\ step = "token_request"
    /\ TruthyString(s.authorizationCode)
    /\ TruthyObject(getServerMetadata(p))

canTransitionThrows(step, s, p, r) == GuardLooksUp(step, s, p) /\ ~r.ci.ok

(* executeStep that returns on a failed guard instead of throwing.         *)
executeStep_returns(s, pg, pe, r) ==
    IF canTransitionThrows(s.oauthStep, s, pg, r)
    THEN Outcome(TRUE, r.ci.err, <<>>, <<>>, <<>>)
    ELSE IF ~canTransition(s.oauthStep, s, pg)
    THEN Outcome(FALSE, None, <<>>, <<>>, <<>>)
    ELSE execute(s.oauthStep, s, pe, r)

(* One invocation from its call to its end.  pg is what the provider holds *)
(* when the guard reads it (at the call) and pe what it holds when the     *)
(* action reads it (when the awaited guard has settled).                   *)
executeStep(s, pg, pe, r) ==
    IF canTransitionThrows(s.oauthStep, s, pg, r)
    THEN Outcome(TRUE, r.ci.err, <<>>, <<>>, <<>>)
    ELSE IF ~canTransition(s.oauthStep, s, pg)
    THEN Outcome(TRUE, Error("Cannot transition from " \o s.oauthStep), <<>>, <<>>, <<>>)
    ELSE execute(s.oauthStep, s, pe, r)

(* Responses of the collaborators.                                         *)
PrmResponses == {Returns(m) : m \in ResourceMetadatas} \cup {Throws(e) : e \in ThrownValues}

SelectResponses ==
    {Returns(None), Returns(Some(UrlObject("https://mcp.example/mcp"))),
     Throws(Error("Resource selection failed"))}

MetadataResponses ==
    {Returns(None)} \cup {Returns(Some(m)) : m \in RawMetadatas}
        \cup {Throws(Error("fetch failed"))}

RegisterResponses == {Returns(c) : c \in RegisteredClients} \cup {Throws(Error("registration failed"))}

ScopeResponses == {Returns(None), Returns(Some("read write")), Throws(Error("fetch failed"))}

StartResponses == {Returns(a) : a \in AuthorizationStarts} \cup {Throws(Error("Incompatible auth server"))}

LookupResponses == {[ok |-> TRUE], Throws(Error("storage unavailable"))}

ExchangeResponses == {Returns(t) : t \in TokenSets} \cup {Throws(Error("Token exchange failed"))}

(* Responses for the collaborators a step does not call.                   *)
NoResponses ==
    [prm |-> Throws(Error("unused")), sel |-> Returns(None), md |-> Returns(None),
     ci |-> [ok |-> TRUE], ci2 |-> [ok |-> TRUE], reg |-> Throws(Error("unused")), sc |-> Returns(None), nonce |-> "state1",
     start |-> Throws(Error("unused")), ex |-> Throws(Error("unused"))]

----------------------------------------------------------------------------
(* Invocations.  executeStep and the functions of the transition table are *)
(* async: a call runs up to its next await, is suspended there and is      *)
(* resumed when the awaited call settles; the caller and other invocations *)
(* run in between.  An invocation under way holds where it is suspended    *)
(* (pc), how it was called (via), the step whose transition it runs, the   *)
(* Flow State it was called with (s), what the provider held when the      *)
(* guard read it (pg) and when the action read it (pe), and the responses  *)
(* it has received so far (r).                                             *)

Invocations == {1, 2}

Idle ==
    [pc |-> "idle", via |-> "executeStep", step |-> "prm_discovery", s |-> EmptyState,
     pg |-> EmptyProvider, pe |-> EmptyProvider, r |-> NoResponses]

NoneInFlight == [i \in Invocations |-> Idle]

(* The record of the last thing done.  For an invocation that has ended:   *)
(* the Flow State it was called with, what its guard and its action read   *)
(* from the provider, the Flow State the caller held when it ended (held), *)
(* the collaborators' responses and its outcome.                           *)
NoInvocation(kind) ==
    [kind |-> kind, step |-> "prm_discovery", state |-> EmptyState,
     pguard |-> EmptyProvider, provider |-> EmptyProvider, held |-> EmptyState,
     r |-> NoResponses, guard |-> "none", raised |-> FALSE, error |-> None,
     updates |-> <<>>, saves |-> <<>>, calls |-> <<>>]

(* What the provider can hold for the server when a flow starts: nothing,  *)
(* pre-registered (static) client information, or what an earlier flow     *)
(* left.                                                                   *)
ProviderStates ==
    {p \in [serverMetadata : {None} \cup {Some(m) : m \in OAuthMetadatas},
            clientInformation : {None} \cup {Some(c) : c \in ClientInfos},
            codeVerifier : {None, Some("verifier1")},
            tokens : {None} \cup {Some(t) : t \in TokenSets}] :
        /\ p.tokens.has = p.codeVerifier.has
        /\ p.serverMetadata.has => ~p.serverMetadata.val.scopes_supported.has}

(* The result the guard of invocation inv gave.                            *)
GuardResult(inv) ==
    IF canTransitionThrows(inv.step, inv.s, inv.pg, inv.r) THEN "threw"
    ELSE IF canTransition(inv.step, inv.s, inv.pg) THEN "true"
    ELSE "false"

(* Invocation i is suspended at the await pc.                              *)
Await(i, inv, pc) ==
    /\ inflight' = [inflight EXCEPT ![i] = [inv EXCEPT !.pc = pc]]
    /\ UNCHANGED <<state, provider, last>>

(* Invocation i ends.  Everything an invocation writes it writes after its *)
(* last await, in one run: the saves go to the provider as it is then, and *)
(* the caller merges the reported updates into the Flow State it holds     *)
(* then.                                                                   *)
Finish(i, inv) ==
    LET o == IF inv.via = "executeStep"
             THEN executeStep(inv.s, inv.pg, inv.pe, inv.r)
             ELSE execute(inv.step, inv.s, inv.pe, inv.r)
    IN  /\ state' = ApplyUpdates(state, o.updates)
        /\ provider' = ApplySaves(provider, o.saves)
        /\ last' = [kind |-> inv.via, step |-> inv.step, state |-> inv.s,
                    pguard |-> inv.pg, provider |-> inv.pe, held |-> state, r |-> inv.r,
                    guard |-> IF inv.via = "executeStep" THEN GuardResult(inv) ELSE "none",
                    raised |-> o.raised, error |-> o.error, updates |-> o.updates,
                    saves |-> o.saves, calls |-> o.calls]
        /\ inflight' = [inflight EXCEPT ![i] = Idle]

(* The action of the step starts and runs up to its first await; the       *)
(* actions of authorization_code and complete have none, and that of       *)
(* client_registration throws before its first when it finds no metadata   *)
(* to read the scopes from.                                                *)
Begin(i, inv) ==
    CASE inv.step = "prm_discovery"            -> Await(i, inv, "prm")
      [] inv.step = "oauth_metadata_discovery" -> Await(i, inv, "md")
      [] inv.step = "client_registration"      ->
            IF ScopesSupported(inv.s).ok THEN Await(i, inv, "ci") ELSE Finish(i, inv)
      [] inv.step = "authorization_redirect"   -> Await(i, inv, "sc")
      [] inv.step = "authorization_code"       -> Finish(i, inv)
      [] inv.step = "token_request"            -> Await(i, inv, "ci2")
      [] inv.step = "complete"                 -> Finish(i, inv)

(* The call executeStep(state) with the Flow State the caller holds: the   *)
(* provider and the context are built, the transition of the state's step  *)
(* is taken and its guard is called; the guard of token_request reads the  *)
(* provider and may start the clientInformation() lookup, whose response   *)
(* is ci.  The call is suspended awaiting the guard.                       *)
ExecuteStep(i) ==
    /\ inflight[i].pc = "idle"
    /\ \E ci \in LookupResponses :
          /\ ~GuardLooksUp(state.oauthStep, state, provider) => ci.ok
          /\ inflight' = [inflight EXCEPT ![i] =
                             [pc |-> "guard", via |-> "executeStep",
                              step |-> state.oauthStep, s |-> state,
                              pg |-> provider, pe |-> provider,
                              r |-> [NoResponses EXCEPT !.ci = ci]]]
    /\ last' = NoInvocation("call")
    /\ UNCHANGED <<state, provider>>

(* A guard called on the exported table has settled: it has written       *)
(* nothing, so only its result is recorded.                                *)
GuardReturns(i, inv) ==
    /\ last' = [NoInvocation("canTransition") EXCEPT
                    !.step = inv.step, !.state = inv.s, !.pguard = inv.pg,
                    !.provider = inv.pe, !.held = state, !.r = inv.r,
                    !.guard = GuardResult(inv),
                    !.raised = (GuardResult(inv) = "threw"),
                    !.error = IF GuardResult(inv) = "threw" THEN inv.r.ci.err ELSE None]
    /\ inflight' = [inflight EXCEPT ![i] = Idle]
    /\ UNCHANGED <<state, provider>>

(* The awaited guard settles.  Under executeStep the invocation raises     *)
(* when the guard raised or gave false, and otherwise the action starts,   *)
(* reading the provider as it is now; a guard called on the exported table *)
(* gives its result to its caller.                                         *)
GuardSettles(i) ==
    LET inv == inflight[i]
    IN  /\ inv.pc = "guard"
        /\ IF inv.via = "canTransition"
           THEN GuardReturns(i, inv)
           ELSE IF GuardResult(inv) = "true"
           THEN Begin(i, [inv EXCEPT !.pe = provider])
           ELSE Finish(i, inv)

(* discoverOAuthProtectedResourceMetadata settles; a failure is caught and *)
(* the action goes on to selectResourceURL.                                *)
PrmFetchSettles(i) ==
    /\ inflight[i].pc = "prm"
    /\ \E prm \in PrmResponses :
          Await(i, [inflight[i] EXCEPT !.r.prm = prm], "sel")

(* selectResourceURL settles: the action raises, or computes authServerUrl *)
(* and reports.                                                            *)
SelectSettles(i) ==
    /\ inflight[i].pc = "sel"
    /\ \E sel \in SelectResponses :
          Finish(i, [inflight[i] EXCEPT !.r.sel = sel])

(* discoverAuthorizationServerMetadata settles: the action raises on a     *)
(* failure and on no metadata, and otherwise awaits the schema validation. *)
MetadataFetchSettles(i) ==
    /\ inflight[i].pc = "md"
    /\ \E md \in MetadataResponses :
          LET inv == [inflight[i] EXCEPT !.r.md = md]
          IN  IF md.ok /\ md.val.has
              THEN Await(i, inv, "parse")
              ELSE Finish(i, inv)

(* OAuthMetadataSchema.parseAsync settles: the action raises, or saves the *)
(* metadata and reports.                                                   *)
ParseSettles(i) ==
    /\ inflight[i].pc = "parse"
    /\ Finish(i, inflight[i])

(* The clientInformation() lookup of client_registration settles: the      *)
(* action raises, reports the information the provider held, or awaits     *)
(* registerClient.                                                         *)
LookupSettles(i) ==
    /\ inflight[i].pc = "ci"
    /\ \E ci \in LookupResponses :
          LET inv == [inflight[i] EXCEPT !.r.ci = ci]
          IN  IF ci.ok /\ ~TruthyObject(clientInformation(inv.pe))
              THEN Await(i, inv, "reg")
              ELSE Finish(i, inv)

(* registerClient settles: the action raises, or saves the client          *)
(* information and reports.                                                *)
RegisterSettles(i) ==
    /\ inflight[i].pc = "reg"
    /\ \E reg \in RegisterResponses :
          Finish(i, [inflight[i] EXCEPT !.r.reg = reg])

(* discoverScopes settles: the action raises, or goes on to generate the   *)
(* state value and awaits startAuthorization.                              *)
ScopesReturn(i) ==
    /\ inflight[i].pc = "sc"
    /\ \E sc \in ScopeResponses, nonce \in OAuthStates :
          IF sc.ok
          THEN Await(i, [inflight[i] EXCEPT !.r.sc = sc, !.r.nonce = nonce], "start")
          ELSE /\ nonce = "state1"
               /\ Finish(i, [inflight[i] EXCEPT !.r.sc = sc])

(* startAuthorization that leaves the Flow State alone when the flow has   *)
(* moved on from authorization_redirect in the meantime.                   *)
StartReturns_skipsStaleUpdate(i) ==
    /\ inflight[i].pc = "start"
    /\ \E start \in StartResponses :
          LET inv == [inflight[i] EXCEPT !.r.start = start]
              o == executeStep(inv.s, inv.pg, inv.pe, inv.r)
              updates == IF state.oauthStep = "authorization_redirect"
                         THEN o.updates ELSE <<>>
          IN  /\ state' = ApplyUpdates(state, updates)
              /\ provider' = ApplySaves(provider, o.saves)
              /\ last' = [kind |-> inv.via, step |-> inv.step, state |-> inv.s,
                          pguard |-> inv.pg, provider |-> inv.pe, held |-> state,
                          r |-> inv.r, guard |-> "true",
                          raised |-> o.raised, error |-> o.error, updates |-> updates,
                          saves |-> o.saves, calls |-> o.calls]
              /\ inflight' = [inflight EXCEPT ![i] = Idle]

(* startAuthorization settles: the action raises, or saves the verifier    *)
(* and reports the URL and the step.                                       *)
StartReturns(i) ==
    /\ inflight[i].pc = "start"
    /\ \E start \in StartResponses :
          Finish(i, [inflight[i] EXCEPT !.r.start = start])

(* The clientInformation() lookup of token_request's action settles: the   *)
(* action raises, on a failed lookup or on a resource it cannot rebuild,   *)
(* or awaits exchangeAuthorization.                                        *)
TokenLookupSettles(i) ==
    /\ inflight[i].pc = "ci2"
    /\ \E ci2 \in LookupResponses :
          LET inv == [inflight[i] EXCEPT !.r.ci2 = ci2]
          IN  IF ci2.ok /\ ExchangeResource(inv.s.resource).ok
              THEN Await(i, inv, "ex")
              ELSE Finish(i, inv)

(* exchangeAuthorization settles: the action raises, or saves the tokens   *)
(* and reports.                                                            *)
ExchangeSettles(i) ==
    /\ inflight[i].pc = "ex"
    /\ \E ex \in ExchangeResponses :
          Finish(i, [inflight[i] EXCEPT !.r.ex = ex])

(* An awaited call of invocation i settles.                                *)
Settles(i) ==
    \/ GuardSettles(i)
    \/ PrmFetchSettles(i)
    \/ SelectSettles(i)
    \/ MetadataFetchSettles(i)
    \/ ParseSettles(i)
    \/ LookupSettles(i)
    \/ RegisterSettles(i)
    \/ ScopesReturn(i)
    \/ StartReturns(i)
    \/ TokenLookupSettles(i)
    \/ ExchangeSettles(i)

(* oauthTransitions is exported: the action of any step can be called on   *)
(* a context without executeStep and its guard.  It starts at once.        *)
Execute(i) ==
    /\ inflight[i].pc = "idle"
    /\ \E step \in StepSet :
          Begin(i, [Idle EXCEPT !.via = "execute", !.step = step, !.s = state,
                                !.pg = provider, !.pe = provider])

(* The guard of any step called on a context, likewise.  The guard of     *)
(* token_request that finds a code and server metadata starts the          *)
(* clientInformation() lookup and is suspended awaiting it; every other    *)
(* guard, and this one when it finds either missing, has its result when   *)
(* the call returns.                                                       *)
CanTransition(i) ==
    /\ inflight[i].pc = "idle"
    /\ \E step \in StepSet, ci \in LookupResponses :
          LET inv == [Idle EXCEPT !.via = "canTransition", !.step = step,
                                  !.s = state, !.pg = provider, !.pe = provider,
                                  !.r.ci = ci]
          IN  IF GuardLooksUp(step, state, provider)
              THEN Await(i, inv, "guard")
              ELSE ci.ok /\ GuardReturns(i, inv)

----------------------------------------------------------------------------
(* A caller that serializes its invocations, as it is asked to: it calls   *)
(* executeStep with the Flow State it holds when no invocation is under    *)
(* way, and puts the code the user pasted into the Flow State between      *)
(* invocations.                                                            *)

Serial == \A j \in Invocations : inflight[j].pc = "idle"

Invoke == Serial /\ ExecuteStep(1)

Init ==
    /\ state = EmptyState
    /\ provider \in ProviderStates
    /\ last = NoInvocation("init")
    /\ inflight = NoneInFlight

SetAuthorizationCode ==
    /\ Serial
    /\ \E c \in AuthorizationCodes : state' = [state EXCEPT !.authorizationCode = c]
    /\ state'.authorizationCode # state.authorizationCode
    /\ last' = NoInvocation("caller")
    /\ UNCHANGED <<provider, inflight>>

Next ==
    \/ Invoke
    \/ Settles(1)
    \/ SetAuthorizationCode

Spec == Init /\ [][Next]_vars

----------------------------------------------------------------------------
(* executeStep takes whatever Flow State the caller passes: a second       *)
(* specification starts from any Flow State and any provider contents.     *)

AnyResourceMetadata ==
    [resource |-> "https://mcp.example/mcp",
     authorization_servers |-> Some(<<"https://as.example">>),
     scopes_supported |-> Some(<<"read", "write">>)]

AnyMetadata ==
    [issuer |-> "https://as.example/",
     authorization_endpoint |-> Some("https://as.example/authorize"),
     scopes_supported |-> None]

(* The resources a caller can hold: none, the URL object, its href as a    *)
(* string, a string new URL normalises, one it rejects, the empty string.  *)
Resources ==
    {None, Some(UrlObject("https://mcp.example/mcp")),
     Some(StringValue("https://mcp.example/mcp")),
     Some(StringValue("https://mcp.example")),
     Some(StringValue("not a url")),
     Some(StringValue(""))}

FlowStates ==
    {[oauthStep |-> step,
      resourceMetadata |-> IF res.has THEN Some(AnyResourceMetadata) ELSE None,
      resourceMetadataError |-> IF res.has THEN Some(Error("fetch failed")) ELSE None,
      resource |-> res,
      authServerUrl |-> au,
      oauthMetadata |-> om,
      oauthClientInfo |-> ci,
      authorizationUrl |-> IF res.has THEN Some("https://as.example/authorize?challenge=1") ELSE None,
      authorizationCode |-> code,
      validationError |-> IF res.has THEN Some("You need to provide an authorization code") ELSE None,
      oauthTokens |-> IF res.has THEN Some([access_token |-> "token1"]) ELSE None] :
        step \in StepSet,
        au \in {None, Some("https://as.example/")},
        om \in {None, Some(AnyMetadata)},
        ci \in {None, Some([client_id |-> "abc"])},
        code \in {None, Some(<<>>), Some(<<" ">>), Some(<<"x">>)},
        res \in Resources}

InitAny ==
    /\ state \in FlowStates
    /\ provider \in ProviderStates
    /\ last = NoInvocation("init")
    /\ inflight = NoneInFlight

NextAny ==
    \/ Invoke
    \/ Settles(1)

SpecAny == InitAny /\ [][NextAny]_vars

----------------------------------------------------------------------------
(* What the caller may do besides supplying the code, between invocations  *)
(* and while one is suspended: restart the pipeline from prm_discovery     *)
(* (keeping the code it holds), go back to client_registration with the    *)
(* state it holds, and lose the in-memory fields over the redirect to the  *)
(* authorization server, after which the resource it kept is the URL       *)
(* object or the string it was stored as.  The provider is left alone.     *)

Restart ==
    /\ state.oauthStep # "prm_discovery"
    /\ state' = [EmptyState EXCEPT !.authorizationCode = state.authorizationCode]
    /\ last' = NoInvocation("restart")
    /\ UNCHANGED <<provider, inflight>>

RetryRegistration ==
    /\ StepIndex(state.oauthStep) > StepIndex("client_registration")
    /\ state' = [state EXCEPT !.oauthStep = "client_registration"]
    /\ last' = NoInvocation("retry")
    /\ UNCHANGED <<provider, inflight>>

(* The resource as the caller stores it over the redirect: a URL object    *)
(* comes back as the string of its href.                                   *)
Stored(o) == IF o.has /\ o.val.isURL THEN Some(StringValue(o.val.text)) ELSE o

Suspend ==
    /\ state.oauthStep = "authorization_code"
    /\ state.oauthMetadata.has \/ state.oauthClientInfo.has \/ state.authorizationUrl.has
    /\ \E resource \in {state.resource, Stored(state.resource)} :
          state' = [state EXCEPT !.oauthMetadata = None, !.oauthClientInfo = None,
                                 !.authorizationUrl = None, !.resource = resource]
    /\ last' = NoInvocation("suspend")
    /\ UNCHANGED <<provider, inflight>>

NextCaller ==
    \/ Invoke
    \/ Settles(1)
    \/ Restart
    \/ RetryRegistration
    \/ Suspend

(* A flow that starts with nothing persisted or with pre-registered client *)
(* information only; the caller may already hold the code to supply.       *)
InitCaller ==
    /\ state \in {[EmptyState EXCEPT !.authorizationCode = c] :
                      c \in {Some(<<>>), Some(<<"x">>)}}
    /\ provider \in {p \in ProviderStates :
                        /\ ~p.serverMetadata.has /\ ~p.codeVerifier.has
                        /\ p.clientInformation # Some([client_id |-> "abc"])}
    /\ last = NoInvocation("init")
    /\ inflight = NoneInFlight

SpecCaller == InitCaller /\ [][NextCaller]_vars

----------------------------------------------------------------------------
(* Progress.  The caller keeps invoking, every awaited call settles, every *)
(* collaborator's call other than the PRM fetch succeeds in the end, and   *)
(* the caller replaces a blank code once the flow waits for one.           *)

(* The caller's codes here, set between invocations: none, a blank one and *)
(* a good one.                                                             *)
SetShortCode ==
    /\ Serial
    /\ \E c \in {Some(<<>>), Some(<<" ">>), Some(<<"x">>)} :
          state' = [state EXCEPT !.authorizationCode = c]
    /\ state'.authorizationCode # state.authorizationCode
    /\ last' = NoInvocation("caller")
    /\ UNCHANGED <<provider, inflight>>

SupplyCode ==
    /\ state.oauthStep \in {"authorization_code", "token_request"}
    /\ ~TruthyString(state.authorizationCode) \/ trim(state.authorizationCode.val) = <<>>
    /\ SetShortCode
    /\ TruthyString(state'.authorizationCode)
    /\ trim(state'.authorizationCode.val) # <<>>

(* Invocation inv, where it is, has met nothing that makes it raise: its   *)
(* guard passes and what it has received lets its action go on.            *)
Promising(inv) ==
    /\ inv.pc # "idle"
    /\ GuardResult(inv) = "true"
    /\ ~execute(inv.step, inv.s, inv.pe,
                [inv.r EXCEPT !.sel = IF inv.pc \in {"guard", "prm"}
                                      THEN Returns(None) ELSE @,
                              !.prm = IF inv.pc \in {"guard", "prm"}
                                      THEN Returns(AnyResourceMetadata) ELSE @,
                              !.md = IF inv.pc \in {"guard", "md"}
                                     THEN Returns(Some(AnyMetadata)) ELSE @,
                              !.reg = IF inv.pc \in {"guard", "ci", "reg"}
                                      THEN Returns([client_id |-> "abc"]) ELSE @,
                              !.start = IF inv.pc \in {"guard", "sc", "start"}
                                        THEN Returns([authorizationUrl |->
                                                "https://as.example/authorize?challenge=1",
                                                      codeVerifier |-> "verifier1"])
                                        ELSE @,
                              !.ex = IF inv.pc \in {"guard", "ci2", "ex"}
                                     THEN Returns([access_token |-> "token1"])
                                     ELSE @]).raised

(* A step of the invocation, from where it is suspended at one of pcs      *)
(* (idle: the call), that ends it without raising or leaves it promising.  *)
Advance(pcs) ==
    /\ inflight[1].pc \in pcs
    /\ Invoke \/ Settles(1)
    /\ \/ Promising(inflight'[1])
       \/ inflight'[1].pc = "idle" /\ ~last'.raised

(* The awaits at which a collaborator other than the PRM fetch answers:    *)
(* the first and the second of each step's action.  Of the PRM fetch only  *)
(* that it settles is supposed, not what it answers.  A flow never returns *)
(* to a step it has left, so what recurs is the awaits of one step.        *)
FirstAwaits == {"md", "ci", "sc", "ci2"}

SecondAwaits == {"sel", "reg", "start", "ex"}

NextLive ==
    \/ Invoke
    \/ Settles(1)
    \/ SetShortCode

(* A flow that starts with nothing persisted or with pre-registered client *)
(* information only.                                                       *)
InitLive ==
    /\ state = EmptyState
    /\ provider \in {p \in ProviderStates :
                        /\ ~p.serverMetadata.has /\ ~p.codeVerifier.has
                        /\ p.clientInformation # Some([client_id |-> "abc"])}
    /\ last = NoInvocation("init")
    /\ inflight = NoneInFlight

SpecLive ==
    /\ InitLive /\ [][NextLive]_vars
    /\ WF_vars(Invoke \/ Settles(1))
    /\ SF_vars(SupplyCode)
    /\ SF_vars(Advance({"idle"}))
    /\ SF_vars(Advance(FirstAwaits))
    /\ SF_vars(Advance(SecondAwaits))

----------------------------------------------------------------------------
(* Overlapping invocations: a caller that does not wait for an invocation  *)
(* to end before it calls executeStep again, from the start of a flow in   *)
(* which it holds a code already.  A call takes the first free invocation. *)
(* The server's answers to the PRM fetch are the first MaxPrmAnswers of    *)
(* PrmAnswers: a failure, a document that lists an authorization server    *)
(* and scopes, a document that lists neither, a rejection with a value     *)
(* that is no Error, a document with an empty scope list; beyond these,    *)
(* every answer of PrmResponses.                                           *)

PrmAnswers ==
    <<Throws(Error("fetch failed")),
      Returns(AnyResourceMetadata),
      Returns([resource |-> "https://mcp.example/mcp",
               authorization_servers |-> None, scopes_supported |-> None]),
      Throws([isError |-> FALSE, message |-> "boom"]),
      Returns([resource |-> "https://mcp.example/mcp",
               authorization_servers |-> None, scopes_supported |-> Some(<<>>)])>>

OverlapPrmResponses ==
    IF MaxPrmAnswers > Len(PrmAnswers)
    THEN PrmResponses
    ELSE {PrmAnswers[k] : k \in 1..MaxPrmAnswers}

InitOverlap ==
    /\ state = [EmptyState EXCEPT !.authorizationCode = Some(<<"x">>)]
    /\ provider = EmptyProvider
    /\ last = NoInvocation("init")
    /\ inflight = NoneInFlight

NextOverlap ==
    \/ \E i \in Invocations :
          /\ \A j \in Invocations : j < i => inflight[j].pc # "idle"
          /\ ExecuteStep(i)
    \/ \E i \in Invocations :
          /\ Settles(i)
          /\ inflight'[i].pc = "sel" => inflight'[i].r.prm \in OverlapPrmResponses

SpecOverlap == InitOverlap /\ [][NextOverlap]_vars

----------------------------------------------------------------------------
(* The exported transition table used without the driver: on a context    *)
(* with any Flow State and any provider contents, one call of a guard, of  *)
(* an action or of the driver, which runs to its end.                      *)

InitExported ==
    /\ state \in FlowStates
    /\ provider \in ProviderStates
    /\ last = NoInvocation("init")
    /\ inflight = NoneInFlight

NextExported ==
    \/ Serial /\ last.kind = "init" /\ CanTransition(1)
    \/ Serial /\ last.kind = "init" /\ Execute(1)
    \/ Serial /\ last.kind = "init" /\ ExecuteStep(1)
    \/ Settles(1)

SpecExported == InitExported /\ [][NextExported]_vars

----------------------------------------------------------------------------
(* Properties.                                                             *)

(* The last thing done was an invocation of executeStep that has ended.    *)
Invoked == last.kind = "executeStep"

(* The action of a step has run to its end, through executeStep or called  *)
(* on the exported table.                                                  *)
Ran == last.kind \in {"executeStep", "execute"}

InvokedAt(step) == Invoked /\ last.state.oauthStep = step

(* The guard of the last invocation raised, gave true, gave false.         *)
GuardThrew == canTransitionThrows(last.state.oauthStep, last.state, last.pguard, last.r)

GuardPassed ==
    ~GuardThrew /\ canTransition(last.state.oauthStep, last.state, last.pguard)

GuardFailed ==
    ~GuardThrew /\ ~canTransition(last.state.oauthStep, last.state, last.pguard)

SaveOps == {last.saves[i].op : i \in 1..Len(last.saves)}

CalledFns == {last.calls[i].fn : i \in 1..Len(last.calls)}

(* A code that is absent, empty or made of white space only.               *)
IsBlank(code) == ~code.has \/ \A i \in 1..Len(code.val) : code.val[i] = " "

(* The Flow State held before the i-th update of the last invocation.      *)
StateBefore(i) == ApplyUpdates(last.state, SubSeq(last.updates, 1, i - 1))

(* C1: over invocations that each receive the merged Flow State, every     *)
(* reported update either leaves the step unchanged, which only happens    *)
(* at authorization_code, or sets it to the immediate successor of the     *)
(* current step.                                                           *)
C1_StepOrder ==
    Invoked =>
        \A i \in 1..Len(last.updates) :
            LET cur == StateBefore(i).oauthStep
                nxt == updateState(StateBefore(i), last.updates[i]).oauthStep
            IN  \/ nxt = cur /\ cur = "authorization_code"
                \/ /\ StepIndex(cur) < Len(Steps)
                   /\ nxt = Steps[StepIndex(cur) + 1]

C1_Witness ==
    /\ InvokedAt("token_request")
    /\ state.oauthStep = "complete"
    /\ last.state.validationError = None

(* C2: an invocation at step complete raises the guard violation naming    *)
(* complete, reports no update and writes nothing to the provider,         *)
(* whatever the other fields and the provider contents are; the step       *)
(* stays complete.                                                         *)
C2_CompleteAbsorbing ==
    InvokedAt("complete") =>
        /\ last.raised
        /\ last.error = Error("Cannot transition from complete")
        /\ last.updates = <<>>
        /\ last.saves = <<>>
        /\ state = last.state
        /\ provider = last.provider
        /\ state.oauthStep = "complete"

C2_Witness ==
    /\ InvokedAt("complete")
    /\ last.raised
    /\ state.oauthTokens = None
    /\ state.oauthMetadata.has
    /\ provider.clientInformation.has

(* C3: an invocation whose guard is false raises an error naming the       *)
(* current step, reports no update, saves nothing to the provider and      *)
(* calls no collaborator; Flow State and provider are as before.           *)
C3_GuardViolation ==
    (Invoked /\ GuardFailed) =>
        /\ last.raised
        /\ last.error = Error("Cannot transition from " \o last.state.oauthStep)
        /\ last.updates = <<>>
        /\ last.saves = <<>>
        /\ last.calls = <<>>
        /\ state = last.state
        /\ provider = last.provider

C3_Witness ==
    /\ InvokedAt("token_request")
    /\ GuardFailed
    /\ last.state.authorizationCode = Some(<<"x">>)
    /\ last.raised

(* C4: an invocation at authorization_code with an absent, empty or        *)
(* white-space-only code sets validationError, raises and leaves the step  *)
(* at authorization_code, on every repetition.                             *)
C4_BlankCode ==
    (InvokedAt("authorization_code") /\ IsBlank(last.state.authorizationCode)) =>
        /\ last.raised
        /\ state.validationError.has
        /\ state.oauthStep = "authorization_code"

C4_Witness ==
    /\ InvokedAt("authorization_code")
    /\ last.state.authorizationCode = Some(<<" ", " ">>)
    /\ last.state.validationError.has
    /\ last.raised
    /\ state.oauthStep = "authorization_code"

(* C5: an invocation at authorization_code with a code that is not blank   *)
(* after trimming does not raise, sets validationError to null, also when  *)
(* an earlier attempt had set it, and advances to token_request.           *)
C5_NonBlankCode ==
    (InvokedAt("authorization_code") /\ ~IsBlank(last.state.authorizationCode)) =>
        /\ ~last.raised
        /\ state.validationError = None
        /\ state.oauthStep = "token_request"

C5_Witness ==
    /\ InvokedAt("authorization_code")
    /\ last.state.authorizationCode = Some(<<" ", "x">>)
    /\ last.state.validationError.has
    /\ state.validationError = None
    /\ state.oauthStep = "token_request"

(* Whether some update of the last invocation writes field f.              *)
Updated(f) == \E i \in 1..Len(last.updates) : f \in DOMAIN last.updates[i]

(* The first authorization server a PRM response declares is not a URL.    *)
FirstServerInvalid(prm) ==
    /\ prm.ok
    /\ prm.val.authorization_servers.has
    /\ prm.val.authorization_servers.val # <<>>
    /\ ~IsValidUrl(prm.val.authorization_servers.val[1])

(* C6 as stated: an invocation at prm_discovery never raises and always    *)
(* advances to oauth_metadata_discovery, for every outcome of the          *)
(* collaborators it calls, resource selection included.                    *)
C6_NeverRaises ==
    InvokedAt("prm_discovery") =>
        /\ ~last.raised
        /\ state.oauthStep = "oauth_metadata_discovery"

(* C6 amended: an invocation at prm_discovery does not raise and advances  *)
(* to oauth_metadata_discovery for every outcome of the PRM fetch, when    *)
(* resource selection returns and the first declared authorization server  *)
(* is a valid URL; otherwise it raises and reports no update.              *)
C6_NeverRaisesOnFetch ==
    InvokedAt("prm_discovery") =>
        IF last.r.sel.ok /\ ~FirstServerInvalid(last.r.prm)
        THEN /\ ~last.raised
             /\ state.oauthStep = "oauth_metadata_discovery"
        ELSE /\ last.raised
             /\ last.updates = <<>>
             /\ state = last.state

C6_Witness ==
    /\ InvokedAt("prm_discovery")
    /\ ~last.r.prm.ok
    /\ ~last.raised
    /\ state.oauthStep = "oauth_metadata_discovery"

(* C7 as stated: after an invocation at prm_discovery,                     *)
(* resourceMetadataError is non-null exactly when the PRM fetch raised,    *)
(* and then resourceMetadata is null; the two are never both non-null;     *)
(* later steps leave both unchanged.                                       *)
C7_PrmOutcome ==
    /\ InvokedAt("prm_discovery") =>
          /\ state.resourceMetadataError.has <=> ~last.r.prm.ok
          /\ ~last.r.prm.ok => ~state.resourceMetadata.has
    /\ ~(state.resourceMetadata.has /\ state.resourceMetadataError.has)
    /\ (Invoked /\ last.state.oauthStep # "prm_discovery") =>
          /\ state.resourceMetadata = last.state.resourceMetadata
          /\ state.resourceMetadataError = last.state.resourceMetadataError

(* C7 amended: after an invocation at prm_discovery that reports an        *)
(* update, resourceMetadataError is non-null exactly when the PRM fetch    *)
(* raised, and then resourceMetadata is null; the two are never both       *)
(* non-null; later steps leave both unchanged.                             *)
C7_PrmOutcomeReported ==
    /\ (InvokedAt("prm_discovery") /\ last.updates # <<>>) =>
          /\ state.resourceMetadataError.has <=> ~last.r.prm.ok
          /\ ~last.r.prm.ok => ~state.resourceMetadata.has
    /\ ~(state.resourceMetadata.has /\ state.resourceMetadataError.has)
    /\ (Invoked /\ last.state.oauthStep # "prm_discovery") =>
          /\ state.resourceMetadata = last.state.resourceMetadata
          /\ state.resourceMetadataError = last.state.resourceMetadataError

C7_Witness ==
    /\ InvokedAt("oauth_metadata_discovery")
    /\ ~last.raised
    /\ state.resourceMetadataError.has
    /\ ~state.resourceMetadata.has

(* C8: an invocation at oauth_metadata_discovery, guard satisfied, whose   *)
(* metadata fetch returns nothing or a value the schema rejects, raises;   *)
(* the step stays, oauthMetadata is not set and no server metadata is      *)
(* saved.                                                                  *)
C8_MetadataFatal ==
    (/\ InvokedAt("oauth_metadata_discovery")
     /\ GuardPassed
     /\ last.r.md.ok
     /\ (~last.r.md.val.has \/ ~SchemaAccepts(last.r.md.val.val))) =>
        /\ last.raised
        /\ state.oauthStep = "oauth_metadata_discovery"
        /\ ~Updated("oauthMetadata")
        /\ state.oauthMetadata = last.state.oauthMetadata
        /\ "saveServerMetadata" \notin SaveOps
        /\ provider.serverMetadata = last.provider.serverMetadata

C8_Witness ==
    /\ InvokedAt("oauth_metadata_discovery")
    /\ last.r.md.ok
    /\ last.r.md.val.has
    /\ ~SchemaAccepts(last.r.md.val.val)
    /\ last.raised
    /\ ~provider.serverMetadata.has

(* C9: an invocation at client_registration, guard satisfied, with no      *)
(* client information in the provider and a dynamic registration that      *)
(* raises, raises; the step stays, oauthClientInfo is not set and no       *)
(* client information is saved.                                            *)
C9_RegistrationFailure ==
    (/\ InvokedAt("client_registration")
     /\ GuardPassed
     /\ ~last.provider.clientInformation.has
     /\ ~last.r.reg.ok) =>
        /\ last.raised
        /\ state.oauthStep = "client_registration"
        /\ ~Updated("oauthClientInfo")
        /\ state.oauthClientInfo = last.state.oauthClientInfo
        /\ "saveClientInformation" \notin SaveOps
        /\ ~provider.clientInformation.has

C9_Witness ==
    /\ InvokedAt("client_registration")
    /\ ~last.provider.clientInformation.has
    /\ ~last.r.reg.ok
    /\ "registerClient" \in CalledFns
    /\ last.raised

(* The calls of the last invocation to collaborator fn, in order.          *)
CallsTo(fn) == SelectSeq(last.calls, LAMBDA c : c.fn = fn)

(* C10: an invocation at token_request, guard satisfied, whose token       *)
(* exchange raises, raises; the step stays, oauthTokens is not set and no  *)
(* tokens are saved.                                                       *)
C10_ExchangeFailure ==
    (/\ InvokedAt("token_request")
     /\ GuardPassed
     /\ ~last.r.ex.ok) =>
        /\ last.raised
        /\ state.oauthStep = "token_request"
        /\ ~Updated("oauthTokens")
        /\ state.oauthTokens = last.state.oauthTokens
        /\ "saveTokens" \notin SaveOps
        /\ provider.tokens = last.provider.tokens

C10_Witness ==
    /\ InvokedAt("token_request")
    /\ GuardPassed
    /\ ~last.r.ex.ok
    /\ last.state.resource = Some(StringValue("https://mcp.example"))
    /\ CallsTo("exchangeAuthorization") # <<>>
    /\ CallsTo("exchangeAuthorization")[1].args[6] = Some(UrlObject("https://mcp.example/"))
    /\ last.raised
    /\ state.oauthStep = "token_request"
    /\ provider.tokens = last.provider.tokens

(* C11: at client_registration with the guard satisfied and the lookup     *)
(* answering: when the provider holds client information, registerClient   *)
(* and saveClientInformation are not called and oauthClientInfo is the     *)
(* information held; when it holds none, registerClient is called exactly  *)
(* once and what it returns is saved to the provider and set as            *)
(* oauthClientInfo.  In both branches the step becomes                     *)
(* authorization_redirect.                                                 *)
C11_StaticOrDynamic ==
    (InvokedAt("client_registration") /\ GuardPassed /\ last.r.ci.ok) =>
        IF last.provider.clientInformation.has
        THEN /\ CallsTo("registerClient") = <<>>
             /\ "saveClientInformation" \notin SaveOps
             /\ provider = last.provider
             /\ state.oauthClientInfo = last.provider.clientInformation
             /\ ~last.raised
             /\ state.oauthStep = "authorization_redirect"
        ELSE /\ Len(CallsTo("registerClient")) = 1
             /\ last.r.reg.ok =>
                   /\ last.saves = <<Save("saveClientInformation", last.r.reg.val)>>
                   /\ provider.clientInformation = Some(last.r.reg.val)
                   /\ state.oauthClientInfo = Some(last.r.reg.val)
                   /\ ~last.raised
                   /\ state.oauthStep = "authorization_redirect"

C11_Witness ==
    /\ InvokedAt("client_registration")
    /\ last.provider.clientInformation = Some([client_id |-> "static"])
    /\ CallsTo("registerClient") = <<>>
    /\ ~last.raised
    /\ state.oauthClientInfo = Some([client_id |-> "static"])
    /\ state.oauthStep = "authorization_redirect"

(* C12: over serialized invocations, with the caller re-invoking           *)
(* client_registration or restarting from prm_discovery, an invocation     *)
(* that finds client information persisted in the provider does not call   *)
(* registerClient and leaves that information in place.                    *)
C12_NoSecondRegistration ==
    (Invoked /\ last.provider.clientInformation.has) =>
        /\ CallsTo("registerClient") = <<>>
        /\ provider.clientInformation = last.provider.clientInformation

C12_Witness ==
    /\ InvokedAt("client_registration")
    /\ last.provider.clientInformation = Some([client_id |-> "abc"])
    /\ ~last.state.oauthClientInfo.has
    /\ last.state.resourceMetadataError.has
    /\ ~last.raised
    /\ state.oauthClientInfo = Some([client_id |-> "abc"])

(* A resource token_request can hand to the exchange: none, a URL object,  *)
(* the empty string (handed on as none) or a string that is a URL.         *)
ResourceUsable(o) ==
    ~(o.has /\ ~o.val.isURL /\ o.val.text # "" /\ ~IsValidUrl(o.val.text))

(* The last invocation raised the guard violation of its step.            *)
GuardViolationRaised ==
    /\ last.raised
    /\ last.error = Error("Cannot transition from " \o last.state.oauthStep)

(* C13: the guard of token_request passes exactly when authorizationCode   *)
(* is present in the Flow State and the provider holds server metadata and *)
(* client information; when one of the three is missing the invocation     *)
(* raises the guard violation and the token exchange is not attempted.     *)
(* (A provider lookup that raises gives the guard no result; when the      *)
(* guard passes, the exchange is attempted unless the action's own lookup  *)
(* raises or the Flow State's resource is a string that is no URL, which   *)
(* stop the action with their own error before it.)                        *)
C13_TokenRequestGuard ==
    (InvokedAt("token_request") /\ ~GuardThrew) =>
        IF /\ last.state.authorizationCode.has
           /\ Len(last.state.authorizationCode.val) > 0
           /\ last.pguard.serverMetadata.has
           /\ last.pguard.clientInformation.has
        THEN /\ ~GuardViolationRaised
             /\ (last.r.ci2.ok /\ ResourceUsable(last.state.resource)) =>
                    Len(CallsTo("exchangeAuthorization")) = 1
             /\ (~last.r.ci2.ok \/ ~ResourceUsable(last.state.resource)) =>
                    /\ last.raised
                    /\ CallsTo("exchangeAuthorization") = <<>>
        ELSE /\ GuardViolationRaised
             /\ CallsTo("exchangeAuthorization") = <<>>
             /\ state = last.state
             /\ provider = last.provider

C13_Witness ==
    /\ InvokedAt("token_request")
    /\ last.state.authorizationCode = Some(<<"x">>)
    /\ last.state.resource = Some(StringValue("not a url"))
    /\ last.pguard.serverMetadata.has
    /\ ~last.pguard.clientInformation.has
    /\ GuardViolationRaised

(* C14: in every Flow State reached from the initial one by merging the    *)
(* reported updates, oauthTokens set implies step complete; oauthTokens is *)
(* written only by a token_request invocation that did not raise, which    *)
(* saves the same tokens to the provider and sets step to complete.        *)
C14_TokensImplyComplete ==
    /\ state.oauthTokens.has => state.oauthStep = "complete"
    /\ (Invoked /\ Updated("oauthTokens")) =>
          /\ last.state.oauthStep = "token_request"
          /\ ~last.raised
          /\ last.r.ex.ok
          /\ last.updates = <<[oauthTokens |-> Some(last.r.ex.val), oauthStep |-> "complete"]>>
          /\ last.saves = <<Save("saveTokens", last.r.ex.val)>>
          /\ provider.tokens = state.oauthTokens
    /\ (Invoked /\ ~Updated("oauthTokens")) =>
          /\ state.oauthTokens = last.state.oauthTokens
          /\ "saveTokens" \notin SaveOps

C14_Witness ==
    /\ InvokedAt("token_request")
    /\ ~last.state.oauthTokens.has
    /\ ~last.provider.tokens.has
    /\ state.oauthTokens = Some([access_token |-> "token1"])
    /\ provider.tokens = Some([access_token |-> "token1"])
    /\ state.oauthStep = "complete"

(* The Flow State as it is after the suspension when only step,           *)
(* authorizationCode and resource (and the diagnostic fields) are kept,    *)
(* with the resource as it was and as the string it is stored as.          *)
Discard(s) ==
    [s EXCEPT !.oauthMetadata = None, !.oauthClientInfo = None, !.authorizationUrl = None]

DiscardStored(s) ==
    [Discard(s) EXCEPT !.resource = Stored(@)]

(* C15: once authorization_redirect has succeeded in a run from            *)
(* prm_discovery the provider holds server metadata, client information    *)
(* and a code verifier; authorization_code and token_request behave the    *)
(* same when the Flow State's oauthMetadata, oauthClientInfo and           *)
(* authorizationUrl are discarded and when the resource comes back as a    *)
(* string: the token_request guard passes and the exchange is given the    *)
(* persisted metadata, client information and verifier, and the resource   *)
(* as a URL.                                                               *)
C15_SurvivesSuspension ==
    /\ state.oauthStep \in {"authorization_code", "token_request"} =>
          /\ provider.serverMetadata.has
          /\ provider.clientInformation.has
          /\ provider.codeVerifier.has
    /\ state.resource.has => state.resource.val.text = "https://mcp.example/mcp"
    /\ (Invoked /\ last.state.oauthStep \in {"authorization_code", "token_request"}) =>
          \A kept \in {Discard(last.state), DiscardStored(last.state)} :
             LET o == executeStep(kept, last.pguard, last.provider, last.r)
             IN  /\ o.raised = last.raised
                 /\ o.error = last.error
                 /\ o.updates = last.updates
                 /\ o.saves = last.saves
                 /\ o.calls = last.calls
    /\ (InvokedAt("token_request") /\ TruthyString(last.state.authorizationCode)
            /\ last.r.ci.ok) =>
          /\ ~GuardViolationRaised
          /\ last.provider.codeVerifier.has
    /\ (InvokedAt("token_request") /\ TruthyString(last.state.authorizationCode)
            /\ last.r.ci.ok /\ last.r.ci2.ok) =>
          /\ CallsTo("exchangeAuthorization") =
                <<Call("exchangeAuthorization",
                       <<serverUrl, last.provider.serverMetadata,
                         last.provider.clientInformation, last.state.authorizationCode,
                         last.provider.codeVerifier,
                         IF last.state.resource.has
                         THEN Some(UrlObject("https://mcp.example/mcp")) ELSE None>>)>>
          /\ last.r.ex.ok => ~last.raised /\ state.oauthStep = "complete"

C15_Witness ==
    /\ InvokedAt("token_request")
    /\ ~last.state.oauthMetadata.has
    /\ ~last.state.oauthClientInfo.has
    /\ ~last.state.authorizationUrl.has
    /\ last.state.resource = Some(StringValue("https://mcp.example/mcp"))
    /\ CallsTo("exchangeAuthorization") # <<>>
    /\ CallsTo("exchangeAuthorization")[1].args[6] = Some(UrlObject("https://mcp.example/mcp"))
    /\ ~last.raised
    /\ state.oauthStep = "complete"

(* The step has reached complete with oauthTokens set.                     *)
Completed == state.oauthStep = "complete" /\ state.oauthTokens.has

(* Every invocation that does not raise moves the step to its successor,   *)
(* so a run without a failed invocation takes six invocations, whether or  *)
(* not the PRM fetch failed.                                               *)
SixInvocations ==
    Invoked /\ ~last.raised =>
        /\ StepIndex(last.state.oauthStep) < Len(Steps)
        /\ state.oauthStep = Steps[StepIndex(last.state.oauthStep) + 1]

(* C16 as stated: from prm_discovery, with the caller invoking on, the     *)
(* collaborators other than the PRM fetch succeeding in the end and a      *)
(* non-blank code supplied, the step reaches complete with oauthTokens     *)
(* set, whatever the PRM fetch answers; a run without a failed invocation  *)
(* takes six invocations.                                                  *)
C16_ReachesComplete ==
    /\ <>Completed
    /\ []SixInvocations

(* The PRM fetch has answered the invocation under way with a document     *)
(* whose first listed authorization server is not a valid URL.             *)
PrmAnswerUnusable ==
    inflight[1].pc = "sel" /\ FirstServerInvalid(inflight[1].r.prm)

(* C16 amended: under the same suppositions the step reaches complete with *)
(* oauthTokens set if the PRM fetch never answers with a document whose    *)
(* first listed authorization server is not a valid URL; an invocation at  *)
(* prm_discovery that is answered so raises and leaves the step at         *)
(* prm_discovery.  A run without a failed invocation takes six             *)
(* invocations.                                                            *)
C16_ReachesCompleteWithUsableServers ==
    /\ [](~PrmAnswerUnusable) => <>Completed
    /\ [](InvokedAt("prm_discovery") /\ FirstServerInvalid(last.r.prm) =>
            last.raised /\ state.oauthStep = "prm_discovery")
    /\ []SixInvocations

C16_Witness ==
    /\ state.oauthStep = "complete"
    /\ state.oauthTokens.has
    /\ state.resourceMetadataError.has
    /\ InvokedAt("token_request")

(* C17 as stated: every invocation either reports one update and returns  *)
(* normally or raises; the update callback is never called more than once, *)
(* and no invocation both reports an update and raises.                    *)
C17_UpdateOrRaise ==
    Invoked =>
        /\ Len(last.updates) <= 1
        /\ \/ ~last.raised /\ Len(last.updates) = 1
           \/ last.raised /\ last.updates = <<>>

(* C17 amended: every invocation either reports one update and returns     *)
(* normally or raises; the update callback is never called more than once; *)
(* an invocation both reports an update and raises only at                 *)
(* authorization_code with a blank code, where the update sets             *)
(* validationError alone.                                                  *)
C17_UpdateOrRaiseButBlankCode ==
    Invoked =>
        /\ Len(last.updates) <= 1
        /\ ~last.raised => Len(last.updates) = 1
        /\ (last.raised /\ last.updates # <<>>) =>
              /\ last.state.oauthStep = "authorization_code"
              /\ IsBlank(last.state.authorizationCode)
              /\ DOMAIN last.updates[1] = {"validationError"}
        /\ (last.raised /\ ~(/\ last.state.oauthStep = "authorization_code"
                             /\ IsBlank(last.state.authorizationCode))) =>
              last.updates = <<>>

C17_Witness ==
    /\ InvokedAt("authorization_code")
    /\ last.state.authorizationCode = Some(<<" ">>)
    /\ last.raised
    /\ Len(last.updates) = 1
    /\ state.validationError.has


(* A collaborator call the last invocation made failed, the PRM fetch      *)
(* aside: told from the Flow State and provider given and the responses,   *)
(* following the order in which each step makes its calls.                 *)
CollaboratorFailed ==
    LET s == last.state
        pg == last.pguard
        p == last.provider
        r == last.r
    IN  \/ /\ s.oauthStep = "prm_discovery"
           /\ ~r.sel.ok
        \/ /\ s.oauthStep = "oauth_metadata_discovery"
           /\ s.authServerUrl.has
           /\ \/ ~r.md.ok
              \/ ~r.md.val.has
              \/ ~SchemaAccepts(r.md.val.val)
        \/ /\ s.oauthStep = "client_registration"
           /\ s.oauthMetadata.has
           /\ \/ ~r.ci.ok
              \/ ~p.clientInformation.has /\ ~r.reg.ok
        \/ /\ s.oauthStep = "authorization_redirect"
           /\ s.oauthMetadata.has /\ s.oauthClientInfo.has
           /\ \/ ~r.sc.ok
              \/ ~r.start.ok
        \/ /\ s.oauthStep = "token_request"
           /\ s.authorizationCode.has /\ s.authorizationCode.val # <<>>
           /\ pg.serverMetadata.has
           /\ \/ ~r.ci.ok
              \/ pg.clientInformation.has /\ (~r.ci2.ok \/ ~r.ex.ok)

(* C18: apart from a failure of the PRM fetch, every failure of a          *)
(* collaborator call made during an invocation (resource selection, AS     *)
(* metadata fetch or validation, client-information lookup, dynamic        *)
(* registration, scope discovery, authorization start, token exchange)     *)
(* makes the invocation raise; it reports no update, so the step does not  *)
(* advance.                                                                *)
C18_FailuresRaise ==
    (Invoked /\ CollaboratorFailed) =>
        /\ last.raised
        /\ last.updates = <<>>
        /\ state.oauthStep = last.state.oauthStep

C18_Witness ==
    /\ InvokedAt("authorization_redirect")
    /\ ~last.r.sc.ok
    /\ CalledFns = {"discoverScopes"}
    /\ last.raised
    /\ state.oauthStep = "authorization_redirect"


(* The precondition fields each step declares: those of the Flow State and *)
(* those of the provider.                                                  *)
DeclaredStateFields(step) ==
    CASE step = "oauth_metadata_discovery" -> {"authServerUrl"}
      [] step = "client_registration"      -> {"oauthMetadata"}
      [] step = "authorization_redirect"   -> {"oauthMetadata", "oauthClientInfo"}
      [] step = "token_request"            -> {"authorizationCode"}
      [] OTHER                             -> {}

DeclaredProviderFields(step) ==
    IF step = "token_request" THEN {"serverMetadata", "clientInformation"} ELSE {}

(* A field is set when it holds a value; the code, which starts as the     *)
(* empty string, when it holds a non-empty one.                            *)
IsSet(f, v) == IF f = "authorizationCode" THEN v.has /\ v.val # <<>> ELSE v.has

AllDeclaredSet(step, s, p) ==
    /\ \A f \in DeclaredStateFields(step) : IsSet(f, s[f])
    /\ \A f \in DeclaredProviderFields(step) : IsSet(f, p[f])

(* Flow States and provider contents with nothing set and with everything  *)
(* set.                                                                    *)
OtherStates ==
    {[f \in DOMAIN EmptyState |-> None],
     [resourceMetadata |-> Some(AnyResourceMetadata),
      resourceMetadataError |-> Some(Error("fetch failed")),
      resource |-> Some(UrlObject("https://mcp.example/mcp")),
      authServerUrl |-> Some("https://as.example/"),
      oauthMetadata |-> Some(AnyMetadata),
      oauthClientInfo |-> Some([client_id |-> "abc"]),
      authorizationUrl |-> Some("https://as.example/authorize?challenge=1"),
      authorizationCode |-> Some(<<"x">>),
      validationError |-> Some("You need to provide an authorization code"),
      oauthTokens |-> Some([access_token |-> "token1"]),
      oauthStep |-> None]}

OtherProviders ==
    {EmptyProvider,
     [serverMetadata |-> Some(AnyMetadata), clientInformation |-> Some([client_id |-> "abc"]),
      codeVerifier |-> Some("verifier1"), tokens |-> Some([access_token |-> "token1"])]}

(* The contexts that agree with (s, p) on the step and on the step's       *)
(* declared fields and take every other field from another context.       *)
AgreeingStates(s) ==
    {s} \cup {[f \in DOMAIN s |->
                 IF f = "oauthStep" \/ f \in DeclaredStateFields(s.oauthStep)
                 THEN s[f] ELSE o[f]] : o \in OtherStates}

AgreeingProviders(step, p) ==
    {p} \cup {[f \in DOMAIN p |->
                 IF f \in DeclaredProviderFields(step) THEN p[f] ELSE o[f]] :
              o \in OtherProviders}

(* C19: at every step other than complete the guard's result depends only  *)
(* on the step's declared precondition fields: the result the invocation   *)
(* got is the result of the guard in every context that agrees with it on  *)
(* those fields, whatever the other fields hold, and the guard passes      *)
(* whenever all the declared fields are set.                               *)
C19_GuardReadsDeclaredFields ==
    (Invoked /\ last.state.oauthStep # "complete" /\ ~GuardThrew) =>
        /\ \A s2 \in AgreeingStates(last.state) :
              \A p2 \in AgreeingProviders(last.state.oauthStep, last.pguard) :
                 canTransition(last.state.oauthStep, s2, p2) = ~GuardViolationRaised
        /\ AllDeclaredSet(last.state.oauthStep, last.state, last.pguard) =>
              ~GuardViolationRaised

C19_Witness ==
    /\ InvokedAt("token_request")
    /\ AllDeclaredSet("token_request", last.state, last.pguard)
    /\ ~last.state.oauthMetadata.has
    /\ ~last.state.oauthClientInfo.has
    /\ last.state.oauthTokens.has
    /\ ~GuardViolationRaised


(* C21: at every step other than client_registration, invoking again with  *)
(* the same Flow State snapshot and the same collaborator responses, on    *)
(* the provider the first invocation left, raises or not as the first did, *)
(* reports the same update and leaves the provider's contents as they      *)
(* were; for authorization_redirect these are the verifier and the URL of  *)
(* the authorization start.                                                *)
C21_Idempotent ==
    (Invoked /\ last.state.oauthStep # "client_registration") =>
        LET again == executeStep(last.state, provider, provider, last.r)
        IN  /\ again.raised = last.raised
            /\ again.error = last.error
            /\ again.updates = last.updates
            /\ ApplySaves(provider, again.saves) = provider
            /\ (last.state.oauthStep = "authorization_redirect" /\ ~last.raised) =>
                  /\ again.saves = <<Save("saveCodeVerifier", last.r.start.val.codeVerifier)>>
                  /\ provider.codeVerifier = Some(last.r.start.val.codeVerifier)
                  /\ state.authorizationUrl = Some(last.r.start.val.authorizationUrl)

C21_Witness ==
    /\ InvokedAt("authorization_redirect")
    /\ ~last.raised
    /\ ~last.provider.codeVerifier.has
    /\ provider.codeVerifier = Some("verifier2")
    /\ state.authorizationUrl = Some("https://as.example/authorize?challenge=2")


(* The authorization server URL the PRM response calls for: the URL of the *)
(* first declared server when the fetch succeeded and declares one (every  *)
(* declared list starts with https://as.example or with a string that is   *)
(* not a URL), the root of the server URL's origin otherwise.              *)
ExpectedAuthServerUrl(prm) ==
    IF prm.ok /\ prm.val.authorization_servers.has
              /\ prm.val.authorization_servers.val # <<>>
    THEN "https://as.example/"
    ELSE "https://mcp.example/"

(* C22 as stated: after an invocation at prm_discovery, authServerUrl is   *)
(* the first entry of the PRM's authorization_servers list when the fetch  *)
(* succeeded and the list is non-empty, and the root origin of the server  *)
(* URL in every other case.                                                *)
C22_AuthServerUrl ==
    InvokedAt("prm_discovery") =>
        state.authServerUrl = Some(ExpectedAuthServerUrl(last.r.prm))

(* C22 amended: after an invocation at prm_discovery that reports an       *)
(* update, authServerUrl is the URL of the first entry of the PRM's        *)
(* authorization_servers list when the fetch succeeded and the list is     *)
(* non-empty, and the root origin of the server URL in every other case;   *)
(* an invocation that raises, as it does when resource selection fails or  *)
(* the first entry is not a URL, leaves authServerUrl as it was.           *)
C22_AuthServerUrlReported ==
    /\ (InvokedAt("prm_discovery") /\ last.updates # <<>>) =>
          /\ IsValidUrl(ExpectedAuthServerUrl(last.r.prm))
          /\ state.authServerUrl = Some(ExpectedAuthServerUrl(last.r.prm))
          /\ last.r.prm.ok /\ last.r.prm.val.authorization_servers.has
                /\ last.r.prm.val.authorization_servers.val # <<>> =>
                state.authServerUrl =
                    Some(URL(last.r.prm.val.authorization_servers.val[1]))
    /\ (InvokedAt("prm_discovery") /\ last.updates = <<>>) =>
          /\ last.raised
          /\ ~last.r.sel.ok \/ FirstServerInvalid(last.r.prm)
          /\ state.authServerUrl = last.state.authServerUrl

C22_Witness ==
    /\ InvokedAt("prm_discovery")
    /\ last.r.prm.ok
    /\ last.r.prm.val.authorization_servers.has
    /\ Len(last.r.prm.val.authorization_servers.val) = MaxServers
    /\ ~last.raised
    /\ state.authServerUrl = Some("https://as.example/")


(* C23: when an invocation at oauth_metadata_discovery succeeds, the        *)
(* validated metadata is saved to the provider, the same value is set as   *)
(* oauthMetadata and the step advances to client_registration; whenever    *)
(* the invocation reports a step, the provider holds the server metadata,  *)
(* so no reported state is past oauth_metadata_discovery by this step with *)
(* the provider lacking it.                                                *)
C23_MetadataSavedAndSet ==
    /\ (InvokedAt("oauth_metadata_discovery") /\ ~last.raised) =>
          /\ last.r.md.ok /\ last.r.md.val.has
          /\ SchemaAccepts(last.r.md.val.val)
          /\ last.saves = <<Save("saveServerMetadata", last.r.md.val.val)>>
          /\ last.updates = <<[oauthMetadata |-> last.r.md.val,
                               oauthStep |-> "client_registration"]>>
          /\ provider.serverMetadata = last.r.md.val
          /\ state.oauthMetadata = last.r.md.val
          /\ state.oauthStep = "client_registration"
    /\ (InvokedAt("oauth_metadata_discovery") /\ last.updates # <<>>) =>
          /\ ~last.raised
          /\ provider.serverMetadata.has
          /\ provider.serverMetadata = state.oauthMetadata

C23_Witness ==
    /\ InvokedAt("oauth_metadata_discovery")
    /\ ~last.raised
    /\ ~last.provider.serverMetadata.has
    /\ provider.serverMetadata.has
    /\ provider.serverMetadata = state.oauthMetadata
    /\ state.oauthStep = "client_registration"


(* C24: an invocation at authorization_redirect runs only when both        *)
(* oauthMetadata and oauthClientInfo are set, and otherwise is a guard     *)
(* violation that calls nothing; on success it saves the code verifier the *)
(* authorization start returned, sets authorizationUrl to the URL of the   *)
(* same response and advances to authorization_code; when scope discovery  *)
(* or the authorization start raises, no verifier is saved,                *)
(* authorizationUrl is not set and the step stays.                         *)
C24_Redirect ==
    InvokedAt("authorization_redirect") =>
        IF ~(last.state.oauthMetadata.has /\ last.state.oauthClientInfo.has)
        THEN /\ GuardViolationRaised
             /\ last.calls = <<>>
             /\ state = last.state
             /\ provider = last.provider
        ELSE IF last.r.sc.ok /\ last.r.start.ok
        THEN /\ ~last.raised
             /\ last.saves = <<Save("saveCodeVerifier", last.r.start.val.codeVerifier)>>
             /\ provider.codeVerifier = Some(last.r.start.val.codeVerifier)
             /\ state.authorizationUrl = Some(last.r.start.val.authorizationUrl)
             /\ state.oauthStep = "authorization_code"
        ELSE /\ last.raised
             /\ last.saves = <<>>
             /\ provider = last.provider
             /\ ~Updated("authorizationUrl")
             /\ state.authorizationUrl = last.state.authorizationUrl
             /\ state.oauthStep = "authorization_redirect"

C24_Witness ==
    /\ InvokedAt("authorization_redirect")
    /\ last.state.oauthMetadata.has /\ last.state.oauthClientInfo.has
    /\ last.r.sc.ok /\ last.r.start.ok
    /\ last.provider.codeVerifier = Some("verifier1")
    /\ provider.codeVerifier = Some("verifier2")
    /\ state.authorizationUrl = Some("https://as.example/authorize?challenge=2")
    /\ state.oauthStep = "authorization_code"


(* The scope lists the collaborators declare, joined with single spaces.   *)
SpaceJoined(l) ==
    CASE l = <<>>                -> ""
      [] l = <<"read">>          -> "read"
      [] l = <<"read", "write">> -> "read write"

(* The scope the step is to assign for Flow State s: that of the PRM when  *)
(* the PRM declares scopes, else that of the AS metadata, else none.       *)
ExpectedScope(s) ==
    IF s.resourceMetadata.has /\ s.resourceMetadata.val.scopes_supported.has
    THEN Some(SpaceJoined(s.resourceMetadata.val.scopes_supported.val))
    ELSE IF s.oauthMetadata.val.scopes_supported.has
    THEN Some(SpaceJoined(s.oauthMetadata.val.scopes_supported.val))
    ELSE None

(* C25: at client_registration with the guard satisfied, the scope         *)
(* assigned to the client-registration metadata is the space-joined PRM    *)
(* scopes_supported whenever the PRM declares one, otherwise the           *)
(* space-joined AS-metadata scopes_supported when present, and nothing is  *)
(* assigned when neither is present; the assignment is made whether or not *)
(* dynamic registration follows, and a registration is given the metadata  *)
(* with that scope.                                                        *)
C25_RegistrationScope ==
    (InvokedAt("client_registration") /\ GuardPassed) =>
        LET scope == ExpectedScope(last.state)
        IN  /\ CallsTo("clientMetadata.scope") =
                  IF scope.has THEN <<Call("clientMetadata.scope", <<scope.val>>)>>
                  ELSE <<>>
            /\ scope.has => last.calls[1].fn = "clientMetadata.scope"
            /\ \A i \in 1..Len(last.calls) :
                  last.calls[i].fn = "registerClient" =>
                      last.calls[i].args[3] = [scope |-> scope]

C25_Witness ==
    /\ InvokedAt("client_registration")
    /\ last.state.resourceMetadata.has
    /\ last.state.resourceMetadata.val.scopes_supported = Some(<<"read", "write">>)
    /\ last.state.oauthMetadata.val.scopes_supported = Some(<<"read">>)
    /\ last.provider.clientInformation.has
    /\ CallsTo("clientMetadata.scope") = <<Call("clientMetadata.scope", <<"read write">>)>>
    /\ CallsTo("registerClient") = <<>>
    /\ ~last.raised


(* The fields of the Flow State the guards require, and for each the step  *)
(* that produces it (the code is produced by the caller).                  *)
GuardFields == {"authServerUrl", "oauthMetadata", "oauthClientInfo", "authorizationCode"}

Producer(f) ==
    CASE f = "authServerUrl"     -> "prm_discovery"
      [] f = "oauthMetadata"     -> "oauth_metadata_discovery"
      [] f = "oauthClientInfo"   -> "client_registration"
      [] f = "authorizationCode" -> "caller"

(* C26: no step clears a field a guard requires, run by executeStep or     *)
(* called on the exported table: an update writes authServerUrl,           *)
(* oauthMetadata or oauthClientInfo only in the step that produces it and  *)
(* never writes authorizationCode, what it writes is a set value, and a    *)
(* field that was set stays set; no step removes the provider's server     *)
(* metadata or client information.                                        *)
C26_GuardFieldsKept ==
    Ran =>
        /\ \A f \in GuardFields :
              /\ \A i \in 1..Len(last.updates) :
                    f \in DOMAIN last.updates[i] =>
                        /\ last.step = Producer(f)
                        /\ last.updates[i][f].has
              /\ last.step # Producer(f) => state[f] = last.held[f]
              /\ last.held[f].has => state[f].has
        /\ last.provider.serverMetadata.has => provider.serverMetadata.has
        /\ last.provider.clientInformation.has =>
              provider.clientInformation = last.provider.clientInformation
        /\ "saveServerMetadata" \in SaveOps => last.step = "oauth_metadata_discovery"
        /\ "saveClientInformation" \in SaveOps => last.step = "client_registration"

(* The action of prm_discovery called on a context whose step is another   *)
(* and whose guard fields are set.                                         *)
C26_Witness ==
    /\ last.kind = "execute"
    /\ last.step = "prm_discovery"
    /\ last.state.oauthStep = "token_request"
    /\ ~last.raised
    /\ last.state.authServerUrl = Some("https://as.example/")
    /\ state.authServerUrl = Some("https://mcp.example/")
    /\ last.state.oauthMetadata.has /\ state.oauthMetadata = last.state.oauthMetadata
    /\ last.state.oauthClientInfo.has /\ state.oauthClientInfo = last.state.oauthClientInfo
    /\ state.authorizationCode = Some(<<"x">>)
    /\ last.provider.serverMetadata.has /\ provider.serverMetadata.has


(* C27: validationError is written only by the action of                   *)
(* authorization_code, run by executeStep or called on the exported        *)
(* table: it sets it to the message when the code is blank or absent and   *)
(* to null when it is not; the action of every other step, and every guard *)
(* violation, reports no validationError and leaves it as it was.          *)
C27_ValidationErrorFrame ==
    Ran =>
        IF last.step = "authorization_code"
        THEN /\ Updated("validationError")
             /\ IsBlank(last.state.authorizationCode) =>
                   state.validationError =
                       Some("You need to provide an authorization code")
             /\ ~IsBlank(last.state.authorizationCode) => state.validationError = None
             /\ state.validationError.has => IsBlank(last.state.authorizationCode)
        ELSE /\ ~Updated("validationError")
             /\ state.validationError = last.held.validationError

(* The action of authorization_code called on a context whose step is      *)
(* another, with a blank code.                                             *)
C27_Witness ==
    /\ last.kind = "execute"
    /\ last.step = "authorization_code"
    /\ last.state.oauthStep = "prm_discovery"
    /\ last.state.authorizationCode = Some(<<" ">>)
    /\ ~last.state.validationError.has
    /\ last.raised
    /\ state.validationError = Some("You need to provide an authorization code")
    /\ state.oauthStep = "prm_discovery"


(* C28: in every state reached from the initial one by serialized          *)
(* invocations, oauthMetadata when set equals the provider's server        *)
(* metadata and oauthClientInfo when set equals the provider's client      *)
(* information; so the authorization start (given them from the Flow       *)
(* State) and the token exchange (given them from the provider) are given  *)
(* the same metadata and client.                                           *)
C28_StateAgreesWithProvider ==
    /\ state.oauthMetadata.has => provider.serverMetadata = state.oauthMetadata
    /\ state.oauthClientInfo.has => provider.clientInformation = state.oauthClientInfo
    /\ \A i \in 1..Len(last.calls) :
          /\ last.calls[i].fn = "startAuthorization" =>
                /\ last.calls[i].args[2] = last.provider.serverMetadata
                /\ last.calls[i].args[3] = last.provider.clientInformation
                /\ last.calls[i].args[2].has /\ last.calls[i].args[3].has
          /\ last.calls[i].fn = "exchangeAuthorization" =>
                /\ last.calls[i].args[2] = last.state.oauthMetadata
                /\ last.calls[i].args[3] = last.state.oauthClientInfo
                /\ last.calls[i].args[2].has /\ last.calls[i].args[3].has

C28_Witness ==
    /\ InvokedAt("token_request")
    /\ ~last.raised
    /\ last.provider.serverMetadata.has
    /\ last.provider.clientInformation = Some([client_id |-> "abc"])
    /\ CallsTo("exchangeAuthorization") # <<>>
    /\ CallsTo("exchangeAuthorization")[1].args[2] = state.oauthMetadata
    /\ CallsTo("exchangeAuthorization")[1].args[3] = state.oauthClientInfo


(* C30: whenever the token exchange is called, the authorization code      *)
(* passed to it is non-blank after trimming, the caller being free to set  *)
(* authorizationCode to any value, whitespace-only included, between       *)
(* invocations.                                                            *)
C30_ExchangeCodeNonBlank ==
    \A i \in 1..Len(last.calls) :
        last.calls[i].fn = "exchangeAuthorization" =>
            /\ last.calls[i].args[4].has
            /\ trim(last.calls[i].args[4].val) # <<>>


(* The URL and the verifier are those of one authorization start.          *)
Paired(url, verifier) ==
    \E a \in AuthorizationStarts :
        a.authorizationUrl = url /\ a.codeVerifier = verifier

(* C29: the persisted verifier and the Flow State's authorizationUrl come  *)
(* from the same authorization start, under repeated invocations of        *)
(* authorization_redirect and under every interleaving of overlapping      *)
(* invocations at their awaits: an invocation saves the verifier and       *)
(* reports the URL of one response in one run, so whenever                 *)
(* authorizationUrl is set the provider holds the verifier paired with it; *)
(* the verifier the action of token_request reads when it starts is the    *)
(* one paired with the authorizationUrl the caller holds then, the most    *)
(* recently reported, and is the one it gives the exchange.                *)
C29_VerifierPairedWithUrl ==
    /\ [](state.authorizationUrl.has =>
            /\ provider.codeVerifier.has
            /\ Paired(state.authorizationUrl.val, provider.codeVerifier.val))
    /\ []((InvokedAt("authorization_redirect") /\ ~last.raised) =>
            /\ last.saves = <<Save("saveCodeVerifier", last.r.start.val.codeVerifier)>>
            /\ last.updates = <<[authorizationUrl |-> Some(last.r.start.val.authorizationUrl),
                                 oauthStep |-> "authorization_code"]>>)
    /\ [][\A i \in Invocations :
            (inflight[i].pc = "guard" /\ inflight'[i].pc = "ci2") =>
                /\ inflight'[i].pe.codeVerifier = provider.codeVerifier
                /\ state.authorizationUrl.has
                /\ Paired(state.authorizationUrl.val, provider.codeVerifier.val)]_vars
    /\ [](\A i \in 1..Len(last.calls) :
            last.calls[i].fn = "exchangeAuthorization" =>
                last.calls[i].args[5] = last.provider.codeVerifier)

(* An invocation of token_request called while one of                      *)
(* authorization_redirect was suspended, which ended before the action of  *)
(* token_request read the provider: the exchange is given the verifier of  *)
(* the later authorization start.                                         *)
C29_Witness ==
    /\ InvokedAt("token_request")
    /\ last.state.authorizationUrl = Some("https://as.example/authorize?challenge=1")
    /\ last.pguard.codeVerifier = Some("verifier1")
    /\ last.provider.codeVerifier = Some("verifier2")
    /\ last.held.authorizationUrl = Some("https://as.example/authorize?challenge=2")
    /\ CallsTo("exchangeAuthorization") # <<>>
    /\ CallsTo("exchangeAuthorization")[1].args[5] = Some("verifier2")

====
